---- MODULE Spec2Model ----
(***************************************************************************)
(* Colour palette generator: the colour converter (color-utils.ts), the    *)
(* palette generator (palette-generator.ts) and the operations built on    *)
(* them, as state machines.                                                *)
(*                                                                         *)
(* Numbers.  The TypeScript code computes in IEEE-754 doubles and rounds   *)
(* with Math.round.  Every quantity that reaches Math.round here is a      *)
(* rational n/d with a small denominator, so the double differs from the   *)
(* exact value by far less than the distance to the nearest half-integer,  *)
(* EXCEPT when the exact value is k + 1/2: then the double may lie on      *)
(* either side of the tie and Math.round gives k or k + 1.  MathRound      *)
(* therefore returns the SET of results a double evaluation can give: one  *)
(* value off a tie, both neighbours on a tie.  The converters built on it  *)
(* return sets of results as well.                                         *)
(*                                                                         *)
(* Strings are sequences of one-character strings.                         *)
(***************************************************************************)
EXTENDS Integers, Sequences, FiniteSets, TLC

VARIABLES
    palette,    \* the current Palette: [colors, createdAt]
    nextId,     \* the ids crypto.randomUUID has issued so far are 1..nextId-1
    now,        \* the clock read by new Date()
    last,       \* the last palette operation: its name, its input and what it did
    conv,       \* the last converter call: its name, its input and its result
    selected,   \* selectedColorForTones: the colour whose tones are on offer;
                \* NoColor stands for null
    isGenerating, \* usePalette's isGenerating
    inFlight,   \* the generateNewPalette calls waiting in their delay, oldest
                \* first: the palette each one closed over
    clipboard   \* a useClipboard hook: isSuccess, isError, errorMessage (<<>>
                \* stands for null, <<m>> for the string m), whether the page
                \* has the Clipboard API in a secure context, the number of
                \* writeText promises not yet settled and of auto-reset timers
                \* not yet fired

vars == <<palette, nextId, now, last, conv, selected, isGenerating, inFlight, clipboard>>

(***************************************************************************)
(* Arithmetic helpers                                                      *)
(***************************************************************************)
Abs(x) == IF x < 0 THEN -x ELSE x

Min2(a, b) == IF a < b THEN a ELSE b

Max2(a, b) == IF a > b THEN a ELSE b

Min3(a, b, c) == Min2(a, Min2(b, c))

Max3(a, b, c) == Max2(a, Max2(b, c))

\* the JavaScript a % b for integers, b > 0: the result has the sign of a
Remainder(a, b) == IF a >= 0 THEN a % b ELSE 0 - ((0 - a) % b)

\* Math.max(lo, Math.min(hi, x))
Clamp(lo, hi, x) == Max2(lo, Min2(hi, x))

\* Math.floor(n/d) in place of Math.round
MathFloor(n, d) == {n \div d}

\* Math.round(n/d), d > 0: floor(n/d + 1/2); on an exact tie the double may
\* have fallen just below it, so the value below is kept too.
MathRound(n, d) ==
    LET up == (2 * n + d) \div (2 * d)
        tie == (2 * n + d) % (2 * d) = 0
    IN  IF tie THEN {up - 1, up} ELSE {up}

(***************************************************************************)
(* ColorConverter.hslToRgb, for integer h, s, l.  With s and l in percent  *)
(* and the chroma scaled by 600000:                                        *)
(*   c = (1 - |2l - 1|) * s           -> C = (100 - |2l - 100|) * s * 60   *)
(*   x = c * (1 - |(h/60) % 2 - 1|)   -> X = c-part * (60 - |h % 120 - 60|)*)
(*   m = l - c/2                      -> M = l * 6000 - C / 2              *)
(***************************************************************************)
hslToRgbWrongSector(h0, s0, l0) ==
    LET h == Remainder(Remainder(h0, 360) + 360, 360)
        s == Clamp(0, 100, s0)
        l == Clamp(0, 100, l0)
        k == (100 - Abs(2 * l - 100)) * s
        C == k * 60
        X == k * (60 - Abs((h % 120) - 60))
        M == l * 6000 - (C \div 2)
        t == IF h < 60 THEN <<C, X, 0>>
             ELSE IF h < 120 THEN <<X, C, 0>>
             ELSE IF h < 180 THEN <<0, C, X>>
             ELSE IF h < 240 THEN <<0, X, C>>
             ELSE IF h < 300 THEN <<C, 0, X>>
             ELSE <<C, 0, X>>
    IN  { [r |-> r, g |-> g, b |-> b] :
            r \in MathRound((t[1] + M) * 255, 600000),
            g \in MathRound((t[2] + M) * 255, 600000),
            b \in MathRound((t[3] + M) * 255, 600000) }

\* h = h % 360 in place of ((h % 360) + 360) % 360
hslToRgbNoWrap(h0, s0, l0) ==
    LET h == Remainder(h0, 360)
        s == Clamp(0, 100, s0)
        l == Clamp(0, 100, l0)
        k == (100 - Abs(2 * l - 100)) * s
        C == k * 60
        X == k * (60 - Abs((h % 120) - 60))
        M == l * 6000 - (C \div 2)
        t == IF 0 <= h /\ h < 60 THEN <<C, X, 0>>
             ELSE IF 60 <= h /\ h < 120 THEN <<X, C, 0>>
             ELSE IF 120 <= h /\ h < 180 THEN <<0, C, X>>
             ELSE IF 180 <= h /\ h < 240 THEN <<0, X, C>>
             ELSE IF 240 <= h /\ h < 300 THEN <<X, 0, C>>
             ELSE IF 300 <= h /\ h < 360 THEN <<C, 0, X>>
             ELSE <<0, 0, 0>>
    IN  { [r |-> r, g |-> g, b |-> b] :
            r \in MathRound((t[1] + M) * 255, 600000),
            g \in MathRound((t[2] + M) * 255, 600000),
            b \in MathRound((t[3] + M) * 255, 600000) }

hslToRgb(h0, s0, l0) ==
    LET h == Remainder(Remainder(h0, 360) + 360, 360)
        s == Clamp(0, 100, s0)
        l == Clamp(0, 100, l0)
        k == (100 - Abs(2 * l - 100)) * s
        C == k * 60
        X == k * (60 - Abs((h % 120) - 60))
        M == l * 6000 - (C \div 2)
        t == IF 0 <= h /\ h < 60 THEN <<C, X, 0>>
             ELSE IF 60 <= h /\ h < 120 THEN <<X, C, 0>>
             ELSE IF 120 <= h /\ h < 180 THEN <<0, C, X>>
             ELSE IF 180 <= h /\ h < 240 THEN <<0, X, C>>
             ELSE IF 240 <= h /\ h < 300 THEN <<X, 0, C>>
             ELSE IF 300 <= h /\ h < 360 THEN <<C, 0, X>>
             ELSE <<0, 0, 0>>
    IN  { [r |-> r, g |-> g, b |-> b] :
            r \in MathRound((t[1] + M) * 255, 600000),
            g \in MathRound((t[2] + M) * 255, 600000),
            b \in MathRound((t[3] + M) * 255, 600000) }

(***************************************************************************)
(* ColorConverter.rgbToHsl, for integer channels.  With the channels kept  *)
(* on the 0..255 scale: l = (max + min) / 510, s = diff / (510 - max -     *)
(* min) when max + min > 255 and diff / (max + min) otherwise (the two     *)
(* agree when max + min = 255), h * 360 = 60 * (g - b) / diff + 360 [g <   *)
(* b] etc.  The switch takes the first of r, g, b that equals max.         *)
(***************************************************************************)
rgbToHslNoOffset(r0, g0, b0) ==
    LET r == Clamp(0, 255, r0)
        g == Clamp(0, 255, g0)
        b == Clamp(0, 255, b0)
        max == Max3(r, g, b)
        min == Min3(r, g, b)
        diff == max - min
        ls == MathRound((max + min) * 100, 510)
        ss == IF diff = 0 THEN {0}
              ELSE IF max + min > 255 THEN MathRound(diff * 100, 510 - max - min)
              ELSE MathRound(diff * 100, max + min)
        hs == IF diff = 0 THEN {0}
              ELSE IF max = r
                   THEN MathRound(60 * (g - b) + (IF g < b THEN 360 * diff ELSE 0), diff)
              ELSE IF max = g THEN MathRound(60 * (b - r) + 60 * diff, diff)
              ELSE MathRound(60 * (r - g) + 240 * diff, diff)
    IN  { [h |-> h, s |-> s, l |-> l] : h \in hs, s \in ss, l \in ls }

rgbToHsl(r0, g0, b0) ==
    LET r == Clamp(0, 255, r0)
        g == Clamp(0, 255, g0)
        b == Clamp(0, 255, b0)
        max == Max3(r, g, b)
        min == Min3(r, g, b)
        diff == max - min
        ls == MathRound((max + min) * 100, 510)
        ss == IF diff = 0 THEN {0}
              ELSE IF max + min > 255 THEN MathRound(diff * 100, 510 - max - min)
              ELSE MathRound(diff * 100, max + min)
        hs == IF diff = 0 THEN {0}
              ELSE IF max = r
                   THEN MathRound(60 * (g - b) + (IF g < b THEN 360 * diff ELSE 0), diff)
              ELSE IF max = g THEN MathRound(60 * (b - r) + 120 * diff, diff)
              ELSE MathRound(60 * (r - g) + 240 * diff, diff)
    IN  { [h |-> h, s |-> s, l |-> l] : h \in hs, s \in ss, l \in ls }

(***************************************************************************)
(* Strings: Number.prototype.toString(16), String.prototype.toUpperCase,   *)
(* String.prototype.replace(pattern: string, ''), parseInt(s, 16).         *)
(***************************************************************************)
LowerDigits == <<"0", "1", "2", "3", "4", "5", "6", "7", "8", "9",
                 "a", "b", "c", "d", "e", "f">>

UpperDigits == <<"0", "1", "2", "3", "4", "5", "6", "7", "8", "9",
                 "A", "B", "C", "D", "E", "F">>

\* n.toString(16) for an integer 0 <= n <= 255
toString16(n) ==
    IF n < 16 THEN <<LowerDigits[n + 1]>>
    ELSE <<LowerDigits[(n \div 16) + 1], LowerDigits[(n % 16) + 1]>>

LowerLetters == <<"a", "b", "c", "d", "e", "f", "g", "x">>

UpperLetters == <<"A", "B", "C", "D", "E", "F", "G", "X">>

toUpperCaseChar(c) ==
    IF \E i \in 1..Len(LowerLetters) : LowerLetters[i] = c
    THEN UpperLetters[CHOOSE i \in 1..Len(LowerLetters) : LowerLetters[i] = c]
    ELSE c

toUpperCase(str) == [i \in 1..Len(str) |-> toUpperCaseChar(str[i])]

\* str.replace(c, ''): the first occurrence of c, wherever it is, is removed
replaceFirst(str, c) ==
    IF \E i \in 1..Len(str) : str[i] = c
    THEN LET i == CHOOSE j \in 1..Len(str) :
                      str[j] = c /\ \A k \in 1..(j - 1) : str[k] # c
         IN  SubSeq(str, 1, i - 1) \o SubSeq(str, i + 1, Len(str))
    ELSE str

IsHexDigit(c) ==
    \E i \in 1..16 : UpperDigits[i] = c \/ LowerDigits[i] = c

DigitValue(c) ==
    (CHOOSE i \in 1..16 : UpperDigits[i] = c \/ LowerDigits[i] = c) - 1

\* the value of the longest prefix of hexadecimal digits of str, after acc
RECURSIVE ParseDigits(_, _)
ParseDigits(str, acc) ==
    IF str # <<>> /\ IsHexDigit(Head(str))
    THEN ParseDigits(Tail(str), acc * 16 + DigitValue(Head(str)))
    ELSE acc

RECURSIVE TrimLeft(_)
TrimLeft(str) ==
    IF str # <<>> /\ Head(str) = " " THEN TrimLeft(Tail(str)) ELSE str

\* parseInt(str, 16): leading white space is skipped, then an optional sign,
\* then an optional 0x or 0X, and the longest prefix of hexadecimal digits is
\* the number; what follows is ignored.  NaN when there is no digit.
parseInt16(str) ==
    LET t == TrimLeft(str)
        neg == t # <<>> /\ Head(t) = "-"
        u == IF t # <<>> /\ Head(t) \in {"-", "+"} THEN Tail(t) ELSE t
        v == IF Len(u) >= 2 /\ u[1] = "0" /\ u[2] \in {"x", "X"}
             THEN Tail(Tail(u)) ELSE u
    IN  IF v # <<>> /\ IsHexDigit(Head(v))
        THEN [nan |-> FALSE,
              val |-> IF neg THEN 0 - ParseDigits(v, 0) ELSE ParseDigits(v, 0)]
        ELSE [nan |-> TRUE, val |-> 0]

(***************************************************************************)
(* ColorConverter.rgbToHex and hexToRgb.  The channels are integers, so    *)
(* toHex's Math.round is the identity on the clamped value.                *)
(***************************************************************************)
toHexNoPad(n) == toString16(Clamp(0, 255, n))

toHex(n) ==
    LET hex == toString16(Clamp(0, 255, n))
    IN  IF Len(hex) = 1 THEN <<"0">> \o hex ELSE hex

rgbToHex(r, g, b) == toUpperCase(<<"#">> \o toHex(r) \o toHex(g) \o toHex(b))

\* err: the call threw Error("Invalid HEX color format")
hexToRgb(hex) ==
    LET cleanHex == toUpperCase(replaceFirst(hex, "#"))
        r == parseInt16(SubSeq(cleanHex, 1, 2))
        g == parseInt16(SubSeq(cleanHex, 3, 4))
        b == parseInt16(SubSeq(cleanHex, 5, 6))
    IN  IF Len(cleanHex) # 6 THEN [err |-> TRUE, r |-> 0, g |-> 0, b |-> 0]
        ELSE IF r.nan \/ g.nan \/ b.nan THEN [err |-> TRUE, r |-> 0, g |-> 0, b |-> 0]
        ELSE [err |-> FALSE, r |-> r.val, g |-> g.val, b |-> b.val]

\* hexToHsl: the set of results; none when hexToRgb throws (the exception
\* propagates)
hexToHsl(hex) ==
    LET rgb == hexToRgb(hex)
    IN  IF rgb.err THEN {} ELSE rgbToHsl(rgb.r, rgb.g, rgb.b)

hslToHex(h, s, l) == { rgbToHex(rgb.r, rgb.g, rgb.b) : rgb \in hslToRgb(h, s, l) }

(***************************************************************************)
(* ColorConverter.isValidHsl and createColorFromHsl.  crypto.randomUUID()  *)
(* returns an id never issued before: the caller passes the next unused    *)
(* number.  threw: the call threw Error("Invalid HSL values").             *)
(***************************************************************************)
NoColor ==
    [id |-> 0, hex |-> <<>>, rgb |-> [r |-> 0, g |-> 0, b |-> 0],
     hsl |-> [h |-> 0, s |-> 0, l |-> 0], isLocked |-> FALSE]

isValidHslBelow360(h, s, l) ==
    /\ h >= 0 /\ h < 360
    /\ s >= 0 /\ s <= 100
    /\ l >= 0 /\ l <= 100

isValidHsl(h, s, l) ==
    /\ h >= 0 /\ h <= 360
    /\ s >= 0 /\ s <= 100
    /\ l >= 0 /\ l <= 100

createColorFromHsl(h, s, l, isLocked, id) ==
    IF ~isValidHsl(h, s, l) THEN {[threw |-> TRUE, color |-> NoColor]}
    ELSE { [threw |-> FALSE,
            color |-> [id |-> id,
                       hex |-> rgbToHex(rgb.r, rgb.g, rgb.b),
                       rgb |-> rgb,
                       hsl |-> [h |-> h, s |-> s, l |-> l],
                       isLocked |-> isLocked]] : rgb \in hslToRgb(h, s, l) }

(***************************************************************************)
(* PaletteGenerator: constants                                             *)
(***************************************************************************)
SATURATION_MIN == 60

SATURATION_MAX == 100

LIGHTNESS_MIN == 40

LIGHTNESS_MAX == 70

MIN_HUE_DIFFERENCE == 30

PALETTE_SIZE == 5

\* generateDistinctColor's default maxAttempts
MaxAttempts == 50

(***************************************************************************)
(* Math.random().  A call returns u / RandomScale for some u in            *)
(* 0..RandomScale-1.  The draws of one generation are the sequence         *)
(*   u(p) = (start + p * stride) mod RandomScale,  p = 0, 1, 2, ...        *)
(* and the seed [start, stride] is an input of the generating operation,   *)
(* taken from Seeds: stride 0 repeats one draw for ever (every later       *)
(* candidate hue is rejected and the search falls back), the other strides *)
(* walk round the hue circle.                                              *)
(***************************************************************************)
RandomScale == 720

NumStarts == 1

SeedStarts == { (i * (RandomScale - 1)) \div NumStarts : i \in 0..NumStarts }

SeedStrides == {0, 7, 48}

Seeds == [start : SeedStarts, stride : SeedStrides]

Draw(seed, p) == (seed.start + p * seed.stride) % RandomScale

\* Math.floor(Math.random() * (max - min + 1)) + min, Math.random() = u / RandomScale
randomInRangeFromZero(min, max, u) == (u * (max + 1)) \div RandomScale

randomInRange(min, max, u) == ((u * (max - min + 1)) \div RandomScale) + min

\* generateRandomColor: three draws, from position pos on
generateRandomColor(seed, pos, id) ==
    LET hue == randomInRange(0, 359, Draw(seed, pos))
        saturation == randomInRange(SATURATION_MIN, SATURATION_MAX, Draw(seed, pos + 1))
        lightness == randomInRange(LIGHTNESS_MIN, LIGHTNESS_MAX, Draw(seed, pos + 2))
    IN  createColorFromHsl(hue, saturation, lightness, FALSE, id)

getMinHueDifferenceNoWrap(newHue, existingHues) ==
    IF Len(existingHues) = 0 THEN 360
    ELSE LET ds == { Abs(newHue - existingHues[i]) : i \in 1..Len(existingHues) }
         IN  CHOOSE d \in ds : \A e \in ds : d <= e

getMinHueDifference(newHue, existingHues) ==
    IF Len(existingHues) = 0 THEN 360
    ELSE LET ds == { Min2(Abs(newHue - existingHues[i]),
                          360 - Abs(newHue - existingHues[i])) :
                        i \in 1..Len(existingHues) }
         IN  CHOOSE d \in ds : \A e \in ds : d <= e

(***************************************************************************)
(* generateDistinctColor.  The pass numbered attempt of the for loop draws  *)
(* its candidate hue at position pos + attempt; the loop returns at the     *)
(* first pass whose candidate is accepted, after two more draws.  When no   *)
(* pass below maxAttempts accepts, generateRandomColor draws three more.    *)
(* A result: the colour, the position after its draws, and whether it is    *)
(* the fallback's unconstrained colour.                                     *)
(***************************************************************************)
Accepts(existingHues, seed, pos, attempt) ==
    LET hue == randomInRange(0, 359, Draw(seed, pos + attempt))
        minDifference == getMinHueDifference(hue, existingHues)
    IN  minDifference >= MIN_HUE_DIFFERENCE

\* the loop with "throw" in place of the fallback to generateRandomColor
DistinctColorLoopNoFallback(existingHues, maxAttempts, seed, pos, id) ==
    IF \E attempt \in 0..(maxAttempts - 1) : Accepts(existingHues, seed, pos, attempt)
    THEN LET attempt == CHOOSE a \in 0..(maxAttempts - 1) :
                            /\ Accepts(existingHues, seed, pos, a)
                            /\ \A e \in 0..(a - 1) : ~Accepts(existingHues, seed, pos, e)
             at == pos + attempt
             hue == randomInRange(0, 359, Draw(seed, at))
             saturation == randomInRange(SATURATION_MIN, SATURATION_MAX,
                                         Draw(seed, at + 1))
             lightness == randomInRange(LIGHTNESS_MIN, LIGHTNESS_MAX,
                                        Draw(seed, at + 2))
         IN  { [threw |-> c.threw, color |-> c.color, pos |-> at + 3,
                fellBack |-> FALSE] :
                 c \in createColorFromHsl(hue, saturation, lightness, FALSE, id) }
    ELSE { [threw |-> TRUE, color |-> NoColor, pos |-> pos + maxAttempts,
            fellBack |-> TRUE] }

DistinctColorLoop(existingHues, maxAttempts, seed, pos, id) ==
    IF \E attempt \in 0..(maxAttempts - 1) : Accepts(existingHues, seed, pos, attempt)
    THEN LET attempt == CHOOSE a \in 0..(maxAttempts - 1) :
                            /\ Accepts(existingHues, seed, pos, a)
                            /\ \A e \in 0..(a - 1) : ~Accepts(existingHues, seed, pos, e)
             at == pos + attempt
             hue == randomInRange(0, 359, Draw(seed, at))
             saturation == randomInRange(SATURATION_MIN, SATURATION_MAX,
                                         Draw(seed, at + 1))
             lightness == randomInRange(LIGHTNESS_MIN, LIGHTNESS_MAX,
                                        Draw(seed, at + 2))
         IN  { [threw |-> c.threw, color |-> c.color, pos |-> at + 3,
                fellBack |-> FALSE] :
                 c \in createColorFromHsl(hue, saturation, lightness, FALSE, id) }
    ELSE { [threw |-> c.threw, color |-> c.color, pos |-> pos + maxAttempts + 3,
            fellBack |-> TRUE] :
             c \in generateRandomColor(seed, pos + maxAttempts, id) }

generateDistinctColor(existingColors, maxAttempts, seed, pos, id) ==
    LET existingHues == [i \in 1..Len(existingColors) |-> existingColors[i].hsl.h]
    IN  DistinctColorLoop(existingHues, maxAttempts, seed, pos, id)

(***************************************************************************)
(* generateHarmoniousPalette(existingColors, {preserveLocked}).            *)
(***************************************************************************)
IsLocked(color) == color.isLocked

\* without the filter
lockedColorsUnfiltered(existingColors, preserveLocked) ==
    IF preserveLocked THEN existingColors ELSE <<>>

lockedColorsNone(existingColors, preserveLocked) == <<>>

lockedColorsOf(existingColors, preserveLocked) ==
    IF preserveLocked THEN SelectSeq(existingColors, IsLocked) ELSE <<>>

colorsNeededOneShort(lockedColors) == PALETTE_SIZE - Len(lockedColors) - 1

colorsNeededFor(lockedColors) == PALETTE_SIZE - Len(lockedColors)

\* the loop "for (i = 0; i < colorsNeeded; i++)" from i on; st holds newColors,
\* the position of the next draw, the next unused id, the indices of the
\* colours the fallback produced, and whether a call threw
RECURSIVE FillColors(_, _, _, _)
FillColors(st, i, colorsNeeded, seed) ==
    IF st.threw \/ ~(i < colorsNeeded) THEN {st}
    ELSE UNION {
           FillColors([colors |-> IF c.threw THEN st.colors
                                  ELSE Append(st.colors, c.color),
                       pos |-> c.pos,
                       id |-> st.id + 1,
                       fellBack |-> IF c.fellBack
                                    THEN st.fellBack \cup {Len(st.colors) + 1}
                                    ELSE st.fellBack,
                       threw |-> c.threw],
                      i + 1, colorsNeeded, seed) :
             c \in generateDistinctColor(st.colors, MaxAttempts, seed, st.pos, st.id) }

\* The set of results: threw, the palette returned, the number of locked
\* colours it starts with (kept), the indices of its fallback colours, and
\* the next unused id
generateHarmoniousPalette(existingColors, preserveLocked, seed, id, date) ==
    LET lockedColors == lockedColorsOf(existingColors, preserveLocked)
        colorsNeeded == colorsNeededFor(lockedColors)
        filled == FillColors([colors |-> lockedColors, pos |-> 0, id |-> id,
                              fellBack |-> {}, threw |-> FALSE],
                             0, colorsNeeded, seed)
    IN  { [threw |-> st.threw,
           palette |-> [colors |-> SubSeq(st.colors, 1,
                                          Min2(PALETTE_SIZE, Len(st.colors))),
                        createdAt |-> date],
           kept |-> Len(lockedColors),
           fellBack |-> st.fellBack,
           nextId |-> st.id] : st \in filled }

generateFreshPalette(seed, id, date) ==
    generateHarmoniousPalette(<<>>, FALSE, seed, id, date)

regeneratePalette(currentPalette, seed, id, date) ==
    generateHarmoniousPalette(currentPalette.colors, TRUE, seed, id, date)

(***************************************************************************)
(* toggleColorLock(palette, colorId)                                       *)
(***************************************************************************)
toggleColorLockAll(pal, colorId) ==
    [pal EXCEPT !.colors =
        [i \in 1..Len(pal.colors) |->
            [pal.colors[i] EXCEPT !.isLocked = ~pal.colors[i].isLocked]]]

toggleColorLock(pal, colorId) ==
    [pal EXCEPT !.colors =
        [i \in 1..Len(pal.colors) |->
            IF pal.colors[i].id = colorId
            THEN [pal.colors[i] EXCEPT !.isLocked = ~pal.colors[i].isLocked]
            ELSE pal.colors[i]]]

(***************************************************************************)
(* The palette operations as a state machine.  The palette a caller holds  *)
(* is any list of at most PALETTE_SIZE colours, any of them locked; each   *)
(* generating operation replaces it by its result.                         *)
(***************************************************************************)
MaxGenerations == 2

\* hue lists of the caller's colours: some crowded (also across 0), some apart
InputHues == << <<350, 5, 20, 200, 215>> >>

InputColor(hues, i, isLocked) ==
    (CHOOSE c \in createColorFromHsl(hues[i], 60 + 10 * (i - 1), 40 + 5 * i,
                                      isLocked, i) : TRUE).color

InputPalettes ==
    { [colors |-> [i \in 1..n |-> InputColor(InputHues[p], i, i \in locked)],
       createdAt |-> 0] :
        <<p, n, locked>> \in { x \in (1..Len(InputHues)) \X (0..PALETTE_SIZE)
                                     \X (SUBSET (1..PALETTE_SIZE)) :
                                 x[3] \subseteq 1..x[2] } }

NoCall == [fn |-> "none"]

\* useClipboard's initial state, nothing pending
ClipboardIdle ==
    [isSuccess |-> FALSE, isError |-> FALSE, errorMessage |-> <<>>,
     secure |-> TRUE, writing |-> 0, timers |-> 0]

\* the hooks' state with no call under way
HooksAtRest ==
    /\ isGenerating = FALSE
    /\ inFlight = <<>>
    /\ clipboard = ClipboardIdle

NoOp == [op |-> "init", preserveLocked |-> FALSE, threw |-> FALSE, kept |-> 0,
         fellBack |-> {}, colorId |-> 0]

Init ==
    /\ palette \in InputPalettes
    /\ nextId = PALETTE_SIZE + 1
    /\ now = 1
    /\ last = NoOp
    /\ conv = NoCall
    /\ selected = NoColor
    /\ HooksAtRest

\* one call of a generating function, its result r installed
Generated(opName, preserveLocked, r) ==
    /\ palette' = IF r.threw THEN palette ELSE r.palette
    /\ nextId' = r.nextId
    /\ now' = now + 1
    /\ last' = [op |-> opName, preserveLocked |-> preserveLocked, threw |-> r.threw,
                kept |-> r.kept, fellBack |-> r.fellBack, colorId |-> 0]
    /\ UNCHANGED <<conv, selected, isGenerating, inFlight, clipboard>>

GenerateFreshPalette ==
    /\ now <= MaxGenerations
    /\ \E seed \in Seeds :
          \E r \in generateFreshPalette(seed, nextId, now) :
              Generated("generateFreshPalette", FALSE, r)

GenerateHarmoniousPalette ==
    /\ now <= MaxGenerations
    /\ \E seed \in Seeds, preserveLocked \in BOOLEAN :
          \E r \in generateHarmoniousPalette(palette.colors, preserveLocked, seed,
                                             nextId, now) :
              Generated("generateHarmoniousPalette", preserveLocked, r)

RegeneratePalette ==
    /\ now <= MaxGenerations
    /\ \E seed \in Seeds :
          \E r \in regeneratePalette(palette, seed, nextId, now) :
              Generated("regeneratePalette", TRUE, r)

Next == GenerateFreshPalette \/ GenerateHarmoniousPalette \/ RegeneratePalette

Spec == Init /\ [][Next]_vars

\* toggling locks, on any palette of the same family
ToggleColorLock ==
    /\ \E colorId \in 0..nextId :
          /\ palette' = toggleColorLock(palette, colorId)
          /\ last' = [NoOp EXCEPT !.op = "toggleColorLock", !.colorId = colorId]
    /\ UNCHANGED <<nextId, now, conv, selected, isGenerating, inFlight, clipboard>>

SpecToggle == Init /\ [][ToggleColorLock]_vars

(***************************************************************************)
(* The converters as state machines: Init draws the input, the action      *)
(* applies the functions and records every intermediate result.            *)
(***************************************************************************)
EmptyPalette == [colors |-> <<>>, createdAt |-> 0]

\* the palette part of the state, at rest while a converter is exercised
PaletteAtRest ==
    /\ palette = EmptyPalette
    /\ nextId = 1
    /\ now = 1
    /\ last = NoOp
    /\ selected = NoColor
    /\ HooksAtRest

HueSamples == 120

SatSamples == 20

LightSamples == 15

\* h in [0,360], s in [60,100], l in [40,70]
HslInputs ==
    [h : { (i * 360) \div HueSamples : i \in 0..HueSamples },
     s : { 60 + ((i * 40) \div SatSamples) : i \in 0..SatSamples },
     l : { 40 + ((i * 30) \div LightSamples) : i \in 0..LightSamples }]
        \cup {[h |-> 9, s |-> 100, l |-> 60]}

InitHsl ==
    /\ PaletteAtRest
    /\ \E a \in HslInputs : conv = [fn |-> "none", arg |-> a]

\* hexToHsl(rgbToHex(hslToRgb(h, s, l)))
HslRoundTrip ==
    /\ conv.fn = "none"
    /\ \E rgb \in hslToRgb(conv.arg.h, conv.arg.s, conv.arg.l) :
          LET hex == rgbToHex(rgb.r, rgb.g, rgb.b)
          IN  IF hexToRgb(hex).err
              THEN conv' = [fn |-> "hslRoundTrip", arg |-> conv.arg, rgb |-> rgb,
                            hex |-> hex, threw |-> TRUE,
                            res |-> [h |-> 0, s |-> 0, l |-> 0]]
              ELSE \E hsl \in hexToHsl(hex) :
                      conv' = [fn |-> "hslRoundTrip", arg |-> conv.arg, rgb |-> rgb,
                               hex |-> hex, threw |-> FALSE, res |-> hsl]
    /\ UNCHANGED <<palette, nextId, now, last, selected, isGenerating, inFlight, clipboard>>

SpecHsl == InitHsl /\ [][HslRoundTrip]_vars

RgbSamples == 29

\* channels in [20,235]
RgbInputs ==
    LET channels == { 20 + ((i * 215) \div RgbSamples) : i \in 0..RgbSamples }
    IN  [r : channels, g : channels, b : channels]

InitRgb ==
    /\ PaletteAtRest
    /\ \E a \in RgbInputs : conv = [fn |-> "none", arg |-> a]

\* hslToRgb(rgbToHsl(r, g, b))
RgbRoundTrip ==
    /\ conv.fn = "none"
    /\ \E hsl \in rgbToHsl(conv.arg.r, conv.arg.g, conv.arg.b) :
          \E rgb \in hslToRgb(hsl.h, hsl.s, hsl.l) :
              conv' = [fn |-> "rgbRoundTrip", arg |-> conv.arg, hsl |-> hsl,
                       res |-> rgb]
    /\ UNCHANGED <<palette, nextId, now, last, selected, isGenerating, inFlight, clipboard>>

SpecRgb == InitRgb /\ [][RgbRoundTrip]_vars

ChannelSamples == 32

\* channels in [0,255]
ByteInputs ==
    LET channels == { (i * 255) \div ChannelSamples : i \in 0..ChannelSamples }
    IN  [r : channels, g : channels, b : channels]

InitHex ==
    /\ PaletteAtRest
    /\ \E a \in ByteInputs : conv = [fn |-> "none", arg |-> a]

\* rgbToHex, hexToRgb of its result, rgbToHex of that
HexRoundTrip ==
    /\ conv.fn = "none"
    /\ LET hex == rgbToHex(conv.arg.r, conv.arg.g, conv.arg.b)
           rgb == hexToRgb(hex)
       IN  conv' = [fn |-> "hexRoundTrip", arg |-> conv.arg, hex |-> hex,
                    res |-> rgb,
                    hex2 |-> IF rgb.err THEN <<>> ELSE rgbToHex(rgb.r, rgb.g, rgb.b)]
    /\ UNCHANGED <<palette, nextId, now, last, selected, isGenerating, inFlight, clipboard>>

SpecHex == InitHex /\ [][HexRoundTrip]_vars

MaxHexLen == 7

\* a hexadecimal digit, one in lower case, a letter that is none, and '#'
HexAlphabet == {"#", "1", "a", "G"}

HexStrings == UNION { [1..n -> HexAlphabet] : n \in 0..MaxHexLen }

InitParse ==
    /\ PaletteAtRest
    /\ \E str \in HexStrings : conv = [fn |-> "none", arg |-> [hex |-> str]]

HexToRgb ==
    /\ conv.fn = "none"
    /\ conv' = [fn |-> "hexToRgb", arg |-> conv.arg, res |-> hexToRgb(conv.arg.hex)]
    /\ UNCHANGED <<palette, nextId, now, last, selected, isGenerating, inFlight, clipboard>>

SpecParse == InitParse /\ [][HexToRgb]_vars

(***************************************************************************)
(* ColorConverter.isValidHex, isValidRgb, createColorFromRgb and           *)
(* createColorFromHex.  A factory's result: threw (it threw an Error) and  *)
(* the colour it returned.                                                 *)
(***************************************************************************)
\* /^[0-9A-Fa-f]{6}$/.test(hex.replace('#', ''))
isValidHex(hex) ==
    LET cleanHex == replaceFirst(hex, "#")
    IN  /\ Len(cleanHex) = 6
        /\ \A i \in 1..6 : IsHexDigit(cleanHex[i])

isValidRgb(r, g, b) ==
    /\ r >= 0 /\ r <= 255
    /\ g >= 0 /\ g <= 255
    /\ b >= 0 /\ b <= 255

createColorFromRgbHexOfHsl(r, g, b, isLocked, id) ==
    IF ~isValidRgb(r, g, b) THEN {[threw |-> TRUE, color |-> NoColor]}
    ELSE { [threw |-> FALSE,
            color |-> [id |-> id,
                       hex |-> toUpperCase(<<"#">> \o toHex(hsl.h) \o toHex(hsl.s)
                                                   \o toHex(hsl.l)),
                       rgb |-> [r |-> r, g |-> g, b |-> b],
                       hsl |-> hsl,
                       isLocked |-> isLocked]] : hsl \in rgbToHsl(r, g, b) }

createColorFromRgb(r, g, b, isLocked, id) ==
    IF ~isValidRgb(r, g, b) THEN {[threw |-> TRUE, color |-> NoColor]}
    ELSE { [threw |-> FALSE,
            color |-> [id |-> id,
                       hex |-> rgbToHex(r, g, b),
                       rgb |-> [r |-> r, g |-> g, b |-> b],
                       hsl |-> hsl,
                       isLocked |-> isLocked]] : hsl \in rgbToHsl(r, g, b) }

\* hexToRgb's Error propagates; the hex stored is hex.toUpperCase()
createColorFromHex(hex, isLocked, id) ==
    IF ~isValidHex(hex) THEN {[threw |-> TRUE, color |-> NoColor]}
    ELSE LET rgb == hexToRgb(hex)
         IN  IF rgb.err THEN {[threw |-> TRUE, color |-> NoColor]}
             ELSE { [threw |-> FALSE,
                     color |-> [id |-> id,
                                hex |-> toUpperCase(hex),
                                rgb |-> [r |-> rgb.r, g |-> rgb.g, b |-> rgb.b],
                                hsl |-> hsl,
                                isLocked |-> isLocked]] :
                      hsl \in rgbToHsl(rgb.r, rgb.g, rgb.b) }

\* isValidHex on any short string over HexAlphabet
IsValidHex ==
    /\ conv.fn = "none"
    /\ conv' = [fn |-> "isValidHex", arg |-> conv.arg, res |-> isValidHex(conv.arg.hex)]
    /\ UNCHANGED <<palette, nextId, now, last, selected, isGenerating, inFlight, clipboard>>

SpecValidHex == InitParse /\ [][IsValidHex]_vars

(***************************************************************************)
(* The factories as a state machine.  Init draws the arguments, in and out *)
(* of range; the isLocked argument is given or left out (the parameter's   *)
(* default is false).  A factory may be called again on the same           *)
(* arguments: every call draws a new id.                                   *)
(***************************************************************************)
CreateHueSamples == 24

CreatePercentSamples == 10

CreateChannelSamples == 15

MaxCreated == 2

CreateHslInputs ==
    [kind : {"hsl"},
     h : {-1, 361} \cup { (i * 360) \div CreateHueSamples : i \in 0..CreateHueSamples },
     s : {-1, 101} \cup { (i * 100) \div CreatePercentSamples :
                            i \in 0..CreatePercentSamples },
     l : {-1, 101} \cup { (i * 100) \div CreatePercentSamples :
                            i \in 0..CreatePercentSamples }]

CreateRgbInputs ==
    LET channels == {-1, 256} \cup { (i * 255) \div CreateChannelSamples :
                                       i \in 0..CreateChannelSamples }
    IN  [kind : {"rgb"}, r : channels, g : channels, b : channels]

\* a lower-case hexadecimal digit, a letter that is none, and '#'
CreateHexAlphabet == {"#", "a", "G"}

CreateHexInputs ==
    { [kind |-> "hex", hex |-> str] :
        str \in UNION { [1..n -> CreateHexAlphabet] : n \in 0..MaxHexLen } }

\* the isLocked argument: left out, or given
LockArguments == {[given |-> FALSE, value |-> FALSE],
                  [given |-> TRUE, value |-> FALSE],
                  [given |-> TRUE, value |-> TRUE]}

\* isLocked: boolean = false
IsLockedOrDefault(lock) == IF lock.given THEN lock.value ELSE FALSE

InitCreate ==
    /\ PaletteAtRest
    /\ \E a \in CreateHslInputs \cup CreateRgbInputs \cup CreateHexInputs :
          conv = [fn |-> "none", arg |-> a]

\* the factory's result c recorded, the id drawn
Created(fnName, lock, c) ==
    /\ conv' = [fn |-> fnName, arg |-> conv.arg, lock |-> lock,
                threw |-> c.threw, color |-> c.color]
    /\ nextId' = IF c.threw THEN nextId ELSE nextId + 1
    /\ UNCHANGED <<palette, now, last, selected, isGenerating, inFlight, clipboard>>

CreateColorFromHsl ==
    /\ conv.arg.kind = "hsl"
    /\ nextId <= MaxCreated
    /\ \E lock \in LockArguments :
          \E c \in createColorFromHsl(conv.arg.h, conv.arg.s, conv.arg.l,
                                      IsLockedOrDefault(lock), nextId) :
              Created("createColorFromHsl", lock, c)

CreateColorFromRgb ==
    /\ conv.arg.kind = "rgb"
    /\ nextId <= MaxCreated
    /\ \E lock \in LockArguments :
          \E c \in createColorFromRgb(conv.arg.r, conv.arg.g, conv.arg.b,
                                      IsLockedOrDefault(lock), nextId) :
              Created("createColorFromRgb", lock, c)

CreateColorFromHex ==
    /\ conv.arg.kind = "hex"
    /\ nextId <= MaxCreated
    /\ \E lock \in LockArguments :
          \E c \in createColorFromHex(conv.arg.hex, IsLockedOrDefault(lock), nextId) :
              Created("createColorFromHex", lock, c)

NextCreate == CreateColorFromHsl \/ CreateColorFromRgb \/ CreateColorFromHex

SpecCreate == InitCreate /\ [][NextCreate]_vars

(***************************************************************************)
(* ToneGenerator.  A ColorTone is [label, lightness, hex]; labels are      *)
(* strings like every other string here.                                   *)
(***************************************************************************)
TONE_STEPS ==
    << [label |-> <<"5", "0">>, lightness |-> 95, hex |-> <<>>],
       [label |-> <<"1", "0", "0">>, lightness |-> 90, hex |-> <<>>],
       [label |-> <<"2", "0", "0">>, lightness |-> 80, hex |-> <<>>],
       [label |-> <<"3", "0", "0">>, lightness |-> 70, hex |-> <<>>],
       [label |-> <<"4", "0", "0">>, lightness |-> 60, hex |-> <<>>],
       [label |-> <<"5", "0", "0">>, lightness |-> 50, hex |-> <<>>],
       [label |-> <<"6", "0", "0">>, lightness |-> 40, hex |-> <<>>],
       [label |-> <<"7", "0", "0">>, lightness |-> 30, hex |-> <<>>],
       [label |-> <<"8", "0", "0">>, lightness |-> 20, hex |-> <<>>],
       [label |-> <<"9", "0", "0">>, lightness |-> 10, hex |-> <<>>] >>

\* steps.map(step => ({label, lightness, hex: hslToHex(h, s, step.lightness)})):
\* the set of results
RECURSIVE MapSteps(_, _, _)
MapSteps(steps, h, s) ==
    IF steps = <<>> THEN {<<>>}
    ELSE { <<[label |-> Head(steps).label,
              lightness |-> Head(steps).lightness,
              hex |-> hex]>> \o rest :
             hex \in hslToHex(h, s, Head(steps).lightness),
             rest \in MapSteps(Tail(steps), h, s) }

\* Array.prototype.slice(start, end) with 0 <= start <= end
slice(seq, start, end) == SubSeq(seq, start + 1, Min2(end, Len(seq)))

generateTonesFromFirst(baseColor) ==
    MapSteps(slice(TONE_STEPS, 0, 7), baseColor.hsl.h, baseColor.hsl.s)

generateTones(baseColor) ==
    MapSteps(slice(TONE_STEPS, 1, 8), baseColor.hsl.h, baseColor.hsl.s)

generateAllTonesSwapped(baseColor) ==
    MapSteps(TONE_STEPS, baseColor.hsl.s, baseColor.hsl.h)

generateAllTones(baseColor) ==
    MapSteps(TONE_STEPS, baseColor.hsl.h, baseColor.hsl.s)

getStandardLabels == [i \in 1..Len(TONE_STEPS) |-> TONE_STEPS[i].label]

getStandardLightness == [i \in 1..Len(TONE_STEPS) |-> TONE_STEPS[i].lightness]

\* Number.prototype.toString() of an integer in 0..999
DecimalDigits == <<"0", "1", "2", "3", "4", "5", "6", "7", "8", "9">>

toStringDecimal(n) ==
    IF n < 10 THEN <<DecimalDigits[n + 1]>>
    ELSE IF n < 100 THEN <<DecimalDigits[(n \div 10) + 1], DecimalDigits[(n % 10) + 1]>>
    ELSE <<DecimalDigits[(n \div 100) + 1], DecimalDigits[((n \div 10) % 10) + 1],
           DecimalDigits[(n % 10) + 1]>>

NoTone == [label |-> <<>>, lightness |-> 0, hex |-> <<>>]

\* label: [given, value]; "label || lightness.toString()" takes the default
\* also for the empty string.  The set of results [threw, tone].
generateSpecificToneUnchecked(baseColor, lightness, label) ==
    { [threw |-> FALSE,
       tone |-> [label |-> IF label.given /\ label.value # <<>>
                           THEN label.value
                           ELSE toStringDecimal(Clamp(0, 999, lightness)),
                 lightness |-> lightness,
                 hex |-> hex]] :
        hex \in hslToHex(baseColor.hsl.h, baseColor.hsl.s, lightness) }

generateSpecificTone(baseColor, lightness, label) ==
    IF lightness < 0 \/ lightness > 100 THEN {[threw |-> TRUE, tone |-> NoTone]}
    ELSE { [threw |-> FALSE,
            tone |-> [label |-> IF label.given /\ label.value # <<>>
                                THEN label.value
                                ELSE toStringDecimal(lightness),
                      lightness |-> lightness,
                      hex |-> hex]] :
             hex \in hslToHex(baseColor.hsl.h, baseColor.hsl.s, lightness) }

\* the loop "for (const tone of TONE_STEPS)" from entry i on
RECURSIVE ClosestFrom(_, _, _, _)
ClosestFrom(i, closestTone, minDifference, lightness) ==
    IF i > Len(TONE_STEPS) THEN closestTone
    ELSE LET tone == TONE_STEPS[i]
             difference == Abs(lightness - tone.lightness)
         IN  IF difference < minDifference
             THEN ClosestFrom(i + 1, tone, difference, lightness)
             ELSE ClosestFrom(i + 1, closestTone, minDifference, lightness)

RECURSIVE ClosestFromLastWins(_, _, _, _)
ClosestFromLastWins(i, closestTone, minDifference, lightness) ==
    IF i > Len(TONE_STEPS) THEN closestTone
    ELSE LET tone == TONE_STEPS[i]
             difference == Abs(lightness - tone.lightness)
         IN  IF difference <= minDifference
             THEN ClosestFromLastWins(i + 1, tone, difference, lightness)
             ELSE ClosestFromLastWins(i + 1, closestTone, minDifference, lightness)

findClosestToneLastWins(lightness) ==
    IF lightness < 0 \/ lightness > 100 THEN [threw |-> TRUE, tone |-> NoTone]
    ELSE [threw |-> FALSE,
          tone |-> ClosestFromLastWins(1, TONE_STEPS[1],
                                       Abs(lightness - TONE_STEPS[1].lightness),
                                       lightness)]

findClosestTone(lightness) ==
    IF lightness < 0 \/ lightness > 100 THEN [threw |-> TRUE, tone |-> NoTone]
    ELSE [threw |-> FALSE,
          tone |-> ClosestFrom(1, TONE_STEPS[1],
                               Abs(lightness - TONE_STEPS[1].lightness), lightness)]

\* the callback of tones.every: the results it can give for one tone (false
\* when hexToHsl throws)
ToneMatches(baseColor, tone) ==
    IF hexToRgb(tone.hex).err THEN {FALSE}
    ELSE { LET hueDiff == Abs(toneHsl.h - baseColor.hsl.h)
               hueMatch == hueDiff <= 4 \/ Abs(hueDiff - 360) <= 4
               saturationMatch == Abs(toneHsl.s - baseColor.hsl.s) <= 4
               lightnessMatch == Abs(toneHsl.l - tone.lightness) <= 4
           IN  hueMatch /\ saturationMatch /\ lightnessMatch :
             toneHsl \in hexToHsl(tone.hex) }

\* the set of results of validateToneConsistency(baseColor, tones)
validateToneConsistency(baseColor, tones) ==
    { b \in BOOLEAN :
        IF b THEN \A i \in 1..Len(tones) : TRUE \in ToneMatches(baseColor, tones[i])
        ELSE \E i \in 1..Len(tones) : FALSE \in ToneMatches(baseColor, tones[i]) }

(***************************************************************************)
(* The tone ladder as a state machine.  Init draws a valid base colour     *)
(* (hues up to 360, saturations from 1 to 100); an action applies one      *)
(* function to it; validateToneConsistency is applied to the ladder that   *)
(* generateAllTones returned.                                              *)
(***************************************************************************)
ToneHueSamples == 22

ToneSatSamples == 13

ToneBaseLightness == {40, 70}

\* the hues of a grid, and hue 4, whose lightest tones lose the most
ToneBaseHues == {4} \cup { (i * 360) \div ToneHueSamples : i \in 0..ToneHueSamples }

ToneBases ==
    { c.color :
        c \in UNION { createColorFromHsl(h, 1 + ((j * 99) \div ToneSatSamples),
                                         l, FALSE, 1) :
                        h \in ToneBaseHues, j \in 0..ToneSatSamples,
                        l \in ToneBaseLightness } }

InitTones ==
    /\ PaletteAtRest
    /\ \E base \in ToneBases : conv = [fn |-> "none", arg |-> [base |-> base]]

GenerateAllTones ==
    /\ conv.fn = "none"
    /\ \E tones \in generateAllTones(conv.arg.base) :
          conv' = [fn |-> "generateAllTones", arg |-> conv.arg, tones |-> tones]
    /\ UNCHANGED <<palette, nextId, now, last, selected, isGenerating, inFlight, clipboard>>

GenerateTones ==
    /\ conv.fn = "none"
    /\ \E tones \in generateTones(conv.arg.base) :
          conv' = [fn |-> "generateTones", arg |-> conv.arg, tones |-> tones]
    /\ UNCHANGED <<palette, nextId, now, last, selected, isGenerating, inFlight, clipboard>>

GetStandardLabels ==
    /\ conv.fn = "none"
    /\ conv' = [fn |-> "getStandardLabels", arg |-> conv.arg, res |-> getStandardLabels]
    /\ UNCHANGED <<palette, nextId, now, last, selected, isGenerating, inFlight, clipboard>>

GetStandardLightness ==
    /\ conv.fn = "none"
    /\ conv' = [fn |-> "getStandardLightness", arg |-> conv.arg,
                res |-> getStandardLightness]
    /\ UNCHANGED <<palette, nextId, now, last, selected, isGenerating, inFlight, clipboard>>

ValidateToneConsistency ==
    /\ conv.fn = "generateAllTones"
    /\ \E res \in validateToneConsistency(conv.arg.base, conv.tones) :
          conv' = [fn |-> "validateToneConsistency", arg |-> conv.arg,
                   tones |-> conv.tones, res |-> res]
    /\ UNCHANGED <<palette, nextId, now, last, selected, isGenerating, inFlight, clipboard>>

NextTones ==
    \/ GenerateAllTones
    \/ GenerateTones
    \/ GetStandardLabels
    \/ GetStandardLightness
    \/ ValidateToneConsistency

SpecTones == InitTones /\ [][NextTones]_vars

(***************************************************************************)
(* generateSpecificTone and findClosestTone.  Init draws the base colour   *)
(* (achromatic ones too), the lightness, in and out of [0,100], and the    *)
(* label argument: left out, empty, or a custom label.                     *)
(***************************************************************************)
LightnessMargin == 3

SpecificHueSamples == 6

SpecificBases ==
    { c.color :
        c \in UNION { createColorFromHsl((i * 360) \div SpecificHueSamples, s, 50,
                                         FALSE, 1) :
                        i \in 0..SpecificHueSamples, s \in {0, 30, 100} } }

LabelArguments == {[given |-> FALSE, value |-> <<>>],
                   [given |-> TRUE, value |-> <<>>],
                   [given |-> TRUE, value |-> <<"x">>]}

InitSpecific ==
    /\ PaletteAtRest
    /\ \E base \in SpecificBases, lightness \in (0 - LightnessMargin)..(100 + LightnessMargin),
          label \in LabelArguments :
          conv = [fn |-> "none",
                  arg |-> [base |-> base, lightness |-> lightness, label |-> label]]

GenerateSpecificTone ==
    /\ conv.fn = "none"
    /\ \E r \in generateSpecificTone(conv.arg.base, conv.arg.lightness, conv.arg.label) :
          conv' = [fn |-> "generateSpecificTone", arg |-> conv.arg,
                   threw |-> r.threw, tone |-> r.tone]
    /\ UNCHANGED <<palette, nextId, now, last, selected, isGenerating, inFlight, clipboard>>

FindClosestTone ==
    /\ conv.fn = "none"
    /\ LET r == findClosestTone(conv.arg.lightness)
       IN  conv' = [fn |-> "findClosestTone", arg |-> conv.arg,
                    threw |-> r.threw, tone |-> r.tone]
    /\ UNCHANGED <<palette, nextId, now, last, selected, isGenerating, inFlight, clipboard>>

NextSpecific == GenerateSpecificTone \/ FindClosestTone

SpecSpecific == InitSpecific /\ [][NextSpecific]_vars

(***************************************************************************)
(* Applying a tone (PaletteGenerator.tsx, ToneSelector, usePalette).  The   *)
(* ToneSelector computes generateTones(baseColor) for baseColor =          *)
(* selectedColorForTones and calls onToneSelect with the tone picked from  *)
(* these seven.                                                            *)
(***************************************************************************)
OfferedTones(baseColor) ==
    UNION { { m[1] : m \in MapSteps(<<slice(TONE_STEPS, 1, 8)[k]>>,
                                    baseColor.hsl.h, baseColor.hsl.s) } :
              k \in 1..Len(slice(TONE_STEPS, 1, 8)) }

\* handleToneSelect's newColor; threw: hexToRgb threw (caught and logged, no
\* update)
toneColor(selectedColorForTones, tone) ==
    LET rgb == hexToRgb(tone.hex)
    IN  IF rgb.err THEN [threw |-> TRUE, color |-> NoColor]
        ELSE [threw |-> FALSE,
              color |-> [selectedColorForTones EXCEPT
                            !.hex = tone.hex,
                            !.hsl = [@ EXCEPT !.l = tone.lightness],
                            !.rgb = [r |-> rgb.r, g |-> rgb.g, b |-> rgb.b]]]

\* every entry replaced, in place of the one whose id is colorId
updateColorEvery(pal, colorId, newColor) ==
    [pal EXCEPT !.colors =
        [i \in 1..Len(pal.colors) |-> [newColor EXCEPT !.id = colorId]]]

\* usePalette.updateColor
updateColor(pal, colorId, newColor) ==
    [pal EXCEPT !.colors =
        [i \in 1..Len(pal.colors) |->
            IF pal.colors[i].id = colorId
            THEN [newColor EXCEPT !.id = colorId]
            ELSE pal.colors[i]]]

(***************************************************************************)
(* Every way a Color comes into being, in one specification: the factories *)
(* called on arbitrary arguments (conv holds the call), and the palette of *)
(* a mounted usePalette hook (conv = NoCall): it starts as a fresh         *)
(* palette and has tones applied to its colours, the clock advancing with  *)
(* each.  Nothing is locked here, so regenerating would make a fresh       *)
(* palette again.                                                          *)
(***************************************************************************)
MaxHookEvents == 1

\* useState(() => PaletteGenerator.generateFreshPalette())
InitHookFrom(seeds) ==
    /\ \E seed \in seeds :
          \E r \in generateFreshPalette(seed, 1, 0) :
              /\ ~r.threw
              /\ palette = r.palette
              /\ nextId = r.nextId
              /\ last = [op |-> "generateFreshPalette", preserveLocked |-> FALSE,
                         threw |-> FALSE, kept |-> r.kept, fellBack |-> r.fellBack,
                         colorId |-> 0]
    /\ now = 1
    /\ conv = NoCall
    /\ selected = NoColor
    /\ HooksAtRest

InitHook == InitHookFrom(Seeds)

\* handleOpenToneSelector(color), for a colour on display at one of positions
OpenToneSelectorAt(positions) ==
    /\ \E i \in positions \cap (1..Len(palette.colors)) :
          selected' = palette.colors[i]
    /\ UNCHANGED <<palette, nextId, now, last, conv, isGenerating, inFlight, clipboard>>

OpenToneSelector == OpenToneSelectorAt(1..Len(palette.colors))

\* handleToneSelect(tone) and the updateColor it awaits, while the clock has
\* not passed deadline
ApplyToneBy(deadline) ==
    /\ selected # NoColor
    /\ now <= deadline
    /\ \E tone \in OfferedTones(selected) :
          LET new == toneColor(selected, tone)
          IN  IF new.threw
              THEN /\ last' = [op |-> "applyTone", threw |-> TRUE,
                               colorId |-> selected.id, tone |-> tone]
                   /\ UNCHANGED <<palette, selected>>
              ELSE /\ palette' = updateColor(palette, selected.id, new.color)
                   /\ selected' = NoColor
                   /\ last' = [op |-> "applyTone", threw |-> FALSE,
                               colorId |-> selected.id, tone |-> tone]
    /\ now' = now + 1
    /\ UNCHANGED <<nextId, conv, isGenerating, inFlight, clipboard>>

ApplyTone == ApplyToneBy(MaxHookEvents)

NextHook ==
    /\ conv = NoCall
    /\ (OpenToneSelector \/ ApplyTone)

NextColors ==
    \/ (conv # NoCall /\ NextCreate)
    \/ NextHook

SpecColors == (InitCreate \/ InitHook) /\ [][NextColors]_vars

(***************************************************************************)
(* ColorConverter.getContrastColor.  getLuminance(c) is c/255/12.92 for c  *)
(* up to 10 and ((c/255 + 0.055)/1.055)^2.4 above; the power has no exact  *)
(* integer form, so LinearChannelFloor tabulates floor(10000 *             *)
(* getLuminance(c)) for c = 0..255 and a channel's value is known to lie   *)
(* between that and the next integer (exactly on it for c = 0 and c = 255, *)
(* where the value is 0 and 1).  The luminance 0.2126 r + 0.7152 g +       *)
(* 0.0722 b is then an interval in units of 10^-8, and the comparison with *)
(* 0.179 can go either way when the interval contains the threshold.       *)
(***************************************************************************)
LinearChannelFloor ==
   <<
      0, 3, 6, 9, 12, 15, 18, 21, 24, 27, 30, 33, 36, 40, 43, 47,
      51, 56, 60, 65, 69, 74, 80, 85, 91, 97, 103, 109, 116, 122, 129, 137,
      144, 152, 159, 168, 176, 185, 193, 202, 212, 221, 231, 241, 251, 262, 273, 284,
      295, 307, 318, 331, 343, 356, 368, 382, 395, 409, 423, 437, 451, 466, 481, 497,
      512, 528, 544, 561, 578, 595, 612, 630, 648, 666, 684, 703, 722, 742, 761, 781,
      802, 822, 843, 865, 886, 908, 930, 953, 975, 998, 1022, 1046, 1070, 1094, 1119, 1144,
      1169, 1195, 1221, 1247, 1274, 1301, 1328, 1356, 1384, 1412, 1441, 1470, 1499, 1529, 1559, 1589,
      1620, 1651, 1682, 1714, 1746, 1778, 1811, 1844, 1878, 1912, 1946, 1980, 2015, 2050, 2086, 2122,
      2158, 2195, 2232, 2269, 2307, 2345, 2383, 2422, 2462, 2501, 2541, 2581, 2622, 2663, 2704, 2746,
      2788, 2831, 2874, 2917, 2961, 3005, 3049, 3094, 3139, 3185, 3231, 3277, 3324, 3371, 3419, 3467,
      3515, 3564, 3613, 3662, 3712, 3762, 3813, 3864, 3915, 3967, 4019, 4072, 4125, 4178, 4232, 4286,
      4341, 4396, 4452, 4507, 4564, 4620, 4677, 4735, 4793, 4851, 4910, 4969, 5028, 5088, 5149, 5209,
      5271, 5332, 5394, 5457, 5520, 5583, 5647, 5711, 5775, 5840, 5906, 5972, 6038, 6104, 6172, 6239,
      6307, 6375, 6444, 6514, 6583, 6653, 6724, 6795, 6866, 6938, 7011, 7083, 7156, 7230, 7304, 7379,
      7454, 7529, 7605, 7681, 7758, 7835, 7912, 7991, 8069, 8148, 8227, 8307, 8387, 8468, 8549, 8631,
      8713, 8796, 8879, 8962, 9046, 9130, 9215, 9301, 9386, 9473, 9559, 9646, 9734, 9822, 9911, 10000
   >>

getLuminanceLow(c) == LinearChannelFloor[c + 1]

getLuminanceHigh(c) ==
    IF c = 0 \/ c = 255 THEN LinearChannelFloor[c + 1] ELSE LinearChannelFloor[c + 1] + 1

luminanceLow(rgb) ==
    2126 * getLuminanceLow(rgb.r) + 7152 * getLuminanceLow(rgb.g)
        + 722 * getLuminanceLow(rgb.b)

luminanceHigh(rgb) ==
    2126 * getLuminanceHigh(rgb.r) + 7152 * getLuminanceHigh(rgb.g)
        + 722 * getLuminanceHigh(rgb.b)

Black == <<"#", "0", "0", "0", "0", "0", "0">>

White == <<"#", "F", "F", "F", "F", "F", "F">>

\* luminance > 0.5 in place of luminance > 0.179
getContrastColorMidpoint(hex) ==
    LET rgb == hexToRgb(hex)
    IN  IF rgb.err THEN {[threw |-> TRUE, color |-> <<>>]}
        ELSE { [threw |-> FALSE, color |-> Black] : x \in {1} \cap
                    {IF luminanceHigh(rgb) > 50000000 THEN 1 ELSE 0} }
             \cup { [threw |-> FALSE, color |-> White] : x \in {1} \cap
                    {IF luminanceLow(rgb) <= 50000000 THEN 1 ELSE 0} }

\* the set of results of getContrastColor(hex); threw: hexToRgb's Error
getContrastColor(hex) ==
    LET rgb == hexToRgb(hex)
    IN  IF rgb.err THEN {[threw |-> TRUE, color |-> <<>>]}
        ELSE { [threw |-> FALSE, color |-> Black] : x \in {1} \cap
                    {IF luminanceHigh(rgb) > 17900000 THEN 1 ELSE 0} }
             \cup { [threw |-> FALSE, color |-> White] : x \in {1} \cap
                    {IF luminanceLow(rgb) <= 17900000 THEN 1 ELSE 0} }

(***************************************************************************)
(* getContrastColor as a state machine: Init draws a colour made by        *)
(* createColorFromHsl (pure black and pure white among them), the action   *)
(* asks for the text colour of its hex.                                    *)
(***************************************************************************)
ContrastHueSamples == 24

ContrastPercentSamples == 20

InitContrast ==
    /\ PaletteAtRest
    /\ \E i \in 0..ContrastHueSamples, j \in 0..ContrastPercentSamples,
          k \in 0..ContrastPercentSamples :
          \E c \in createColorFromHsl((i * 360) \div ContrastHueSamples,
                                      (j * 100) \div ContrastPercentSamples,
                                      (k * 100) \div ContrastPercentSamples,
                                      FALSE, 1) :
              conv = [fn |-> "none", arg |-> c.color]

GetContrastColor ==
    /\ conv.fn = "none"
    /\ \E r \in getContrastColor(conv.arg.hex) :
          conv' = [fn |-> "getContrastColor", arg |-> conv.arg,
                   threw |-> r.threw, color |-> r.color]
    /\ UNCHANGED <<palette, nextId, now, last, selected, isGenerating, inFlight, clipboard>>

SpecContrast == InitContrast /\ [][GetContrastColor]_vars

(***************************************************************************)
(* The distinct-hue search on its own, next to the palette operations.     *)
(* generateHarmoniousPalette calls generateDistinctColor(newColors) with   *)
(* the 0 to 4 colours placed so far; Init draws such a list and the random *)
(* source, the action makes the call and records the position of the next  *)
(* draw, which tells how many candidates were drawn.                       *)
(***************************************************************************)
SearchStartSamples == 10

SearchSeeds ==
    [start : { (i * (RandomScale - 1)) \div SearchStartSamples :
                 i \in 0..SearchStartSamples },
     stride : SeedStrides]

\* the colours placed so far: crowded hues (also across 0) or hues apart
SearchHues == << <<350, 5, 20, 200>>, <<0, 90, 180, 270>> >>

SearchExisting ==
    { [i \in 1..n |-> InputColor(SearchHues[p], i, FALSE)] :
        p \in 1..Len(SearchHues), n \in 0..(PALETTE_SIZE - 1) }

InitSearch ==
    /\ PaletteAtRest
    /\ \E existingColors \in SearchExisting, seed \in SearchSeeds :
          conv = [fn |-> "none",
                  arg |-> [existingColors |-> existingColors, seed |-> seed]]

GenerateDistinctColor ==
    /\ conv # NoCall
    /\ conv.fn = "none"
    /\ \E r \in generateDistinctColor(conv.arg.existingColors, MaxAttempts,
                                      conv.arg.seed, 0, PALETTE_SIZE + 1) :
          conv' = [fn |-> "generateDistinctColor", arg |-> conv.arg,
                   threw |-> r.threw, color |-> r.color, pos |-> r.pos,
                   fellBack |-> r.fellBack]
    /\ UNCHANGED <<palette, nextId, now, last, selected, isGenerating, inFlight, clipboard>>

NextSearch ==
    \/ (conv = NoCall /\ Next)
    \/ GenerateDistinctColor

SpecSearch == (Init \/ InitSearch) /\ [][NextSearch]_vars

(***************************************************************************)
(* hslToRgb on arguments outside the valid ranges: Init draws an integer   *)
(* hue on both sides of 0 and 360 and a saturation and lightness around    *)
(* [0,100], the action converts.                                           *)
(***************************************************************************)
WideHueSamples == 48

WidePercentSamples == 6

WideHues ==
    { ((i * 1440) \div WideHueSamples) - 720 : i \in 0..WideHueSamples }
        \cup {0 - 361, 0 - 9, 0 - 1, 9, 359, 361}

WidePercents ==
    { ((i * 100) \div WidePercentSamples) : i \in 0..WidePercentSamples }
        \cup {0 - 7, 0 - 1, 101, 250}

InitWide ==
    /\ PaletteAtRest
    /\ \E h \in WideHues, s \in WidePercents, l \in WidePercents :
          conv = [fn |-> "none", arg |-> [h |-> h, s |-> s, l |-> l]]

HslToRgb ==
    /\ conv.fn = "none"
    /\ \E rgb \in hslToRgb(conv.arg.h, conv.arg.s, conv.arg.l) :
          conv' = [fn |-> "hslToRgb", arg |-> conv.arg, res |-> rgb]
    /\ UNCHANGED <<palette, nextId, now, last, selected, isGenerating, inFlight, clipboard>>

SpecWide == InitWide /\ [][HslToRgb]_vars

(***************************************************************************)
(* useClipboard.  copyToClipboard resets the status and then either        *)
(* awaits navigator.clipboard.writeText (secure context: the promise       *)
(* settles in a later task, other calls and timers can run before it) or   *)
(* runs the execCommand fallback, which finishes within the calling task.  *)
(* Every completed call arms a timer that resets the status after          *)
(* resetDelay.  last records the call that completed and what it returned. *)
(***************************************************************************)
MaxWrites == 2

MaxCopies == 4

\* the message of the catch block: error.message when writeText rejected with
\* an Error, 'Failed to copy to clipboard' when it rejected with anything else
WriteErrors == {"Clipboard write failed", "Failed to copy to clipboard"}

FallbackFailed == "Clipboard API not available and fallback failed"

resetStatus(c) == [c EXCEPT !.isSuccess = FALSE, !.isError = FALSE, !.errorMessage = <<>>]

\* setIsSuccess(true); autoResetStatus()
copySucceeded(c) == [c EXCEPT !.isSuccess = TRUE, !.timers = @ + 1]

\* the catch block: setIsError(true); setErrorMessage(message); autoResetStatus()
copyFailed(c, message) ==
    [c EXCEPT !.isError = TRUE, !.errorMessage = <<message>>, !.timers = @ + 1]

InitClipboard ==
    /\ palette = EmptyPalette
    /\ nextId = 1
    /\ now = 1
    /\ last = NoOp
    /\ selected = NoColor
    /\ isGenerating = FALSE
    /\ inFlight = <<>>
    /\ \E secure \in BOOLEAN : clipboard = [ClipboardIdle EXCEPT !.secure = secure]
    /\ conv = NoCall

\* copyToClipboard(text) in a secure context, up to the await
CopyStart ==
    /\ clipboard.secure
    /\ now <= MaxCopies
    /\ clipboard.writing < MaxWrites
    /\ clipboard' = [resetStatus(clipboard) EXCEPT !.writing = @ + 1]
    /\ now' = now + 1
    /\ last' = [op |-> "copyStart"]
    /\ UNCHANGED <<palette, nextId, conv, selected, isGenerating, inFlight>>

\* writeText's promise fulfilled: the call returns true
WriteFulfilled ==
    /\ clipboard.writing > 0
    /\ clipboard' = [copySucceeded(clipboard) EXCEPT !.writing = @ - 1]
    /\ last' = [op |-> "copyToClipboard", success |-> TRUE]
    /\ UNCHANGED <<palette, nextId, now, conv, selected, isGenerating, inFlight>>

\* writeText's promise rejected: the call returns false
WriteRejected ==
    /\ clipboard.writing > 0
    /\ \E message \in WriteErrors :
          clipboard' = [copyFailed(clipboard, message) EXCEPT !.writing = @ - 1]
    /\ last' = [op |-> "copyToClipboard", success |-> FALSE]
    /\ UNCHANGED <<palette, nextId, now, conv, selected, isGenerating, inFlight>>

\* copyToClipboard(text) without the Clipboard API: execCommand copies or not
CopyFallback ==
    /\ ~clipboard.secure
    /\ now <= MaxCopies
    /\ \E successful \in BOOLEAN :
          /\ clipboard' = IF successful THEN copySucceeded(resetStatus(clipboard))
                          ELSE copyFailed(resetStatus(clipboard), FallbackFailed)
          /\ last' = [op |-> "copyToClipboard", success |-> successful]
    /\ now' = now + 1
    /\ UNCHANGED <<palette, nextId, conv, selected, isGenerating, inFlight>>

\* a timer of autoResetStatus fires
AutoReset ==
    /\ clipboard.timers > 0
    /\ clipboard' = [resetStatus(clipboard) EXCEPT !.timers = @ - 1]
    /\ last' = [op |-> "autoReset"]
    /\ UNCHANGED <<palette, nextId, now, conv, selected, isGenerating, inFlight>>

NextClipboard ==
    \/ CopyStart
    \/ WriteFulfilled
    \/ WriteRejected
    \/ CopyFallback
    \/ AutoReset

SpecClipboard == InitClipboard /\ [][NextClipboard]_vars

(***************************************************************************)
(* usePalette inside PaletteGenerator, event by event.  A handler runs to  *)
(* its first await and sees the palette of the latest render.              *)
(* generateNewPalette sets isGenerating, then waits 100 ms: the call is    *)
(* kept in inFlight with the palette it closed over, and its timer fires   *)
(* later (timers of equal delay fire in the order they were set), when it  *)
(* regenerates that palette, installs the result and clears isGenerating.  *)
(* Meanwhile other handlers run: the Generate button and the Space         *)
(* shortcut start further calls; the lock buttons stay mounted and         *)
(* focusable under the ToneSelector dialog, which has no focus trap.  The  *)
(* clock advances with every event and events start while it has not      *)
(* passed MaxHookTime.                                                     *)
(***************************************************************************)
MaxHookTime == 3

MaxInFlight == 2

\* the random draws of the hook's generations: hues that walk round the
\* circle
HookSeeds == [start : {0}, stride : {7}]

\* the cards the user acts on: after a regeneration the locked colours are
\* the first ones
HookPositions == {1, 2}

\* handleGenerate -> generateNewPalette, to the await
StartGenerate ==
    /\ now <= MaxHookTime
    /\ Len(inFlight) < MaxInFlight
    /\ isGenerating' = TRUE
    /\ inFlight' = Append(inFlight, palette)
    /\ now' = now + 1
    /\ last' = [op |-> "startGenerate"]
    /\ UNCHANGED <<palette, nextId, conv, selected, clipboard>>

\* the result installed by a generateNewPalette call that resumes with the
\* palette closedOver: regeneratePalette's, or the catch block's fresh palette
installedPalette(closedOver, seed, id, date) ==
    UNION { IF r.threw THEN generateFreshPalette(seed, r.nextId, date) ELSE {r} :
              r \in regeneratePalette(closedOver, seed, id, date) }

\* generateNewPalette after the delay: try, catch, finally
FinishGenerate ==
    /\ inFlight # <<>>
    /\ \E seed \in HookSeeds :
          \E r \in installedPalette(Head(inFlight), seed, nextId, now) :
              /\ palette' = IF r.threw THEN palette ELSE r.palette
              /\ nextId' = r.nextId
              /\ last' = [op |-> "generateNewPalette", threw |-> r.threw,
                          kept |-> r.kept, closedOver |-> Head(inFlight)]
    /\ isGenerating' = FALSE
    /\ inFlight' = Tail(inFlight)
    /\ now' = now + 1
    /\ UNCHANGED <<conv, selected, clipboard>>

\* handleColorLockToggle(color.id) -> usePalette.toggleColorLock, for a
\* colour on display
HookToggleColorLock ==
    /\ now <= MaxHookTime
    /\ \E i \in HookPositions \cap (1..Len(palette.colors)) :
          /\ palette' = toggleColorLock(palette, palette.colors[i].id)
          /\ last' = [op |-> "toggleColorLock", colorId |-> palette.colors[i].id]
    /\ now' = now + 1
    /\ UNCHANGED <<nextId, conv, selected, isGenerating, inFlight, clipboard>>

\* handleCloseToneSelector
CloseToneSelector ==
    /\ selected # NoColor
    /\ selected' = NoColor
    /\ UNCHANGED <<palette, nextId, now, last, conv, isGenerating, inFlight, clipboard>>

NextUsePalette ==
    \/ StartGenerate
    \/ FinishGenerate
    \/ HookToggleColorLock
    \/ OpenToneSelectorAt(HookPositions)
    \/ ApplyToneBy(MaxHookTime)
    \/ CloseToneSelector

SpecUsePalette == InitHookFrom(HookSeeds) /\ [][NextUsePalette]_vars

(***************************************************************************)
(* Properties                                                              *)
(***************************************************************************)
Generating == {"generateFreshPalette", "generateHarmoniousPalette", "regeneratePalette"}

\* min(|a - b|, 360 - |a - b|)
CircularDistance(a, b) ==
    IF Abs(a - b) <= 360 - Abs(a - b) THEN Abs(a - b) ELSE 360 - Abs(a - b)

\* C1: each of generateFreshPalette, generateHarmoniousPalette and
\* regeneratePalette returns (without throwing) a palette of exactly 5
\* colours, whatever colours were passed in and whatever was drawn.
C1_ExactlyFiveColors ==
    last.op \in Generating => ~last.threw /\ Len(palette.colors) = 5

\* a regeneration that kept some locked colours and generated the others
C1_Witness ==
    /\ last.op = "regeneratePalette"
    /\ last.kept \in 1..4
    /\ Len(palette.colors) = 5

\* C2: regeneratePalette's result contains every locked colour of its input,
\* with id, hex, rgb, hsl and isLocked unchanged; this holds at every step, so a
\* colour that stays locked survives every further regeneration.
C2_LockedColorsSurvive ==
    [][last'.op = "regeneratePalette" =>
          /\ ~last'.threw
          /\ \A i \in 1..Len(palette.colors) :
                palette.colors[i].isLocked =>
                    \E j \in 1..Len(palette'.colors) :
                        /\ palette'.colors[j].id = palette.colors[i].id
                        /\ palette'.colors[j].hex = palette.colors[i].hex
                        /\ palette'.colors[j].rgb = palette.colors[i].rgb
                        /\ palette'.colors[j].hsl = palette.colors[i].hsl
                        /\ palette'.colors[j].isLocked]_vars

\* the second generation in a row, a regeneration that kept the locked colours
\* of a palette and replaced the others
C2_Witness ==
    /\ last.op = "regeneratePalette"
    /\ now = 3
    /\ last.kept \in 2..4
    /\ \A i \in 1..last.kept : palette.colors[i].isLocked /\ palette.colors[i].id <= 5

C4_GeneratedColorsInRange ==
    last.op \in Generating =>
        /\ ~last.threw
        /\ \A j \in (last.kept + 1)..Len(palette.colors) :
              /\ palette.colors[j].hsl.h \in 0..359
              /\ palette.colors[j].hsl.s \in 60..100
              /\ palette.colors[j].hsl.l \in 40..70
              /\ ~palette.colors[j].isLocked

\* a palette with a colour from the fallback, at the top of the three ranges
C4_Witness ==
    /\ last.op \in Generating
    /\ \E j \in last.fellBack :
          /\ palette.colors[j].hsl = [h |-> 359, s |-> 100, l |-> 70]
          /\ j > last.kept

\* C5: toggleColorLock(p, id) keeps the number and order of the colours and
\* createdAt; the colour with that id has isLocked inverted and its other fields
\* unchanged, every other colour is unchanged; with no such colour the colours
\* are those of p.
C5_ToggleChangesOneLock ==
    [][last'.op = "toggleColorLock" =>
          /\ Len(palette'.colors) = Len(palette.colors)
          /\ palette'.createdAt = palette.createdAt
          /\ \A i \in 1..Len(palette.colors) :
                /\ palette'.colors[i].id = palette.colors[i].id
                /\ palette'.colors[i].hex = palette.colors[i].hex
                /\ palette'.colors[i].rgb = palette.colors[i].rgb
                /\ palette'.colors[i].hsl = palette.colors[i].hsl
                /\ palette'.colors[i].isLocked =
                      (IF palette.colors[i].id = last'.colorId
                       THEN ~palette.colors[i].isLocked
                       ELSE palette.colors[i].isLocked)]_vars

\* a toggle that found its colour among several, some locked and some not
C5_Witness ==
    /\ last.op = "toggleColorLock"
    /\ \E i, j, k \in 1..Len(palette.colors) :
          /\ palette.colors[i].id = last.colorId
          /\ j # i /\ palette.colors[j].isLocked
          /\ k # i /\ ~palette.colors[k].isLocked

\* C6 as claimed: every locked colour of the palette passed to
\* regeneratePalette is at the same index in the result.
C6_AsClaimed ==
    [][(last'.op = "regeneratePalette" /\ ~last'.threw) =>
          \A i \in 1..Len(palette.colors) :
              palette.colors[i].isLocked =>
                  /\ i <= Len(palette'.colors)
                  /\ palette'.colors[i] = palette.colors[i]]_vars

\* C7: for h in [0,360], s in [60,100], l in [40,70] the round trip
\* hexToHsl(rgbToHex(hslToRgb(h,s,l))) succeeds and is within 2 of (h,s,l) in
\* saturation, in lightness and, circularly, in hue.
C7_HslRoundTripWithin2 ==
    conv.fn = "hslRoundTrip" =>
        /\ ~conv.threw
        /\ Abs(conv.res.s - conv.arg.s) <= 2
        /\ Abs(conv.res.l - conv.arg.l) <= 2
        /\ LET d == Abs(conv.res.h - conv.arg.h)
           IN  (IF d <= Abs(d - 360) THEN d ELSE Abs(d - 360)) <= 2

\* hue 360 comes back as hue 0: equal only on the circle
C7_Witness ==
    /\ conv.fn = "hslRoundTrip"
    /\ ~conv.threw
    /\ conv.arg.h = 360
    /\ conv.res.h = 0

InRgbDomain(a) ==
    /\ \A c \in {a.r, a.g, a.b} : c >= 20 /\ c <= 235
    /\ \E c, d \in {a.r, a.g, a.b} : c - d >= 20

ChannelError(a, b) ==
    Max3(Abs(a.r - b.r), Abs(a.g - b.g), Abs(a.b - b.b))

C9_HexRoundTripExact ==
    conv.fn = "hexRoundTrip" =>
        /\ Len(conv.hex) = 7
        /\ conv.hex[1] = "#"
        /\ \A i \in 2..7 : \E d \in 1..16 : conv.hex[i] = UpperDigits[d]
        /\ ~conv.res.err
        /\ conv.res.r = conv.arg.r
        /\ conv.res.g = conv.arg.g
        /\ conv.res.b = conv.arg.b
        /\ conv.hex2 = conv.hex

\* a triple with a one-digit channel and a channel that needs a letter
C9_Witness ==
    /\ conv.fn = "hexRoundTrip"
    /\ conv.arg.r < 16
    /\ conv.arg.b > 160
    /\ ~conv.res.err
    /\ conv.hex2 = conv.hex

\* the string without one leading '#'
StripLeadingHash(str) ==
    IF str # <<>> /\ Head(str) = "#" THEN Tail(str) ELSE str

IsSixHexDigits(str) ==
    /\ Len(str) = 6
    /\ \A i \in 1..6 : \E d \in 1..16 : str[i] = UpperDigits[d] \/ str[i] = LowerDigits[d]

HexDigitNumber(c) ==
    (CHOOSE d \in 1..16 : c = UpperDigits[d] \/ c = LowerDigits[d]) - 1

\* C10 as claimed: hexToRgb throws exactly when the string, without one leading
\* '#', is not six hexadecimal digits, and otherwise returns the three 2-digit
\* groups read in base 16.
C10_AsClaimed ==
    conv.fn = "hexToRgb" =>
        LET body == StripLeadingHash(conv.arg.hex)
        IN  IF IsSixHexDigits(body)
            THEN /\ ~conv.res.err
                 /\ conv.res.r = 16 * HexDigitNumber(body[1]) + HexDigitNumber(body[2])
                 /\ conv.res.g = 16 * HexDigitNumber(body[3]) + HexDigitNumber(body[4])
                 /\ conv.res.b = 16 * HexDigitNumber(body[5]) + HexDigitNumber(body[6])
            ELSE conv.res.err

Factories == {"createColorFromHsl", "createColorFromRgb", "createColorFromHex"}

\* C11 as claimed: isValidHex(s) is true exactly when s, without one leading
\* '#', is six hexadecimal digits; a '#' elsewhere makes s invalid.
C11_AsClaimed ==
    conv.fn = "isValidHex" =>
        (conv.res <=> IsSixHexDigits(StripLeadingHash(conv.arg.hex)))

\* C12 as claimed: the hex of every colour a factory returns is '#' followed by
\* six upper-case hexadecimal digits.
C12_AsClaimed ==
    (conv.fn \in Factories /\ ~conv.threw) =>
        /\ Len(conv.color.hex) = 7
        /\ conv.color.hex[1] = "#"
        /\ \A i \in 2..7 : \E d \in 1..16 : conv.color.hex[i] = UpperDigits[d]

\* C13 as claimed: every colour a factory returns has hsl.h in 0..359 (never
\* 360) and hsl.s, hsl.l in 0..100.
C13_AsClaimed ==
    (conv.fn \in Factories /\ ~conv.threw) =>
        /\ conv.color.hsl.h \in 0..359
        /\ conv.color.hsl.s \in 0..100
        /\ conv.color.hsl.l \in 0..100

\* C15: createColorFromHsl throws exactly when h is outside [0,360] or s or l
\* outside [0,100], createColorFromRgb exactly when a channel is outside
\* [0,255], createColorFromHex exactly when isValidHex is false; otherwise the
\* colour returned carries the lock flag given (unlocked when left out) and an
\* id that was not issued before.
C15_FactoriesValidate ==
    [][conv'.fn \in Factories =>
          /\ conv'.fn = "createColorFromHsl" =>
                (conv'.threw <=> ~(/\ conv.arg.h \in 0..360
                                   /\ conv.arg.s \in 0..100
                                   /\ conv.arg.l \in 0..100))
          /\ conv'.fn = "createColorFromRgb" =>
                (conv'.threw <=> ~(\A c \in {conv.arg.r, conv.arg.g, conv.arg.b} :
                                       c \in 0..255))
          /\ conv'.fn = "createColorFromHex" =>
                (conv'.threw <=> ~isValidHex(conv.arg.hex))
          /\ ~conv'.threw =>
                /\ conv'.color.isLocked = (conv'.lock.given /\ conv'.lock.value)
                /\ conv'.color.id \notin 1..(nextId - 1)
                /\ (conv.fn \in Factories /\ ~conv.threw) =>
                       conv'.color.id # conv.color.id]_vars

\* the second colour made from hue 360, the lock flag left out
C15_Witness ==
    /\ conv.fn = "createColorFromHsl"
    /\ conv.arg.h = 360
    /\ ~conv.threw
    /\ ~conv.lock.given
    /\ conv.color.id = 2

\* the standard table as the claims give it
ClaimedTable ==
    << [label |-> <<"5", "0">>, lightness |-> 95],
       [label |-> <<"1", "0", "0">>, lightness |-> 90],
       [label |-> <<"2", "0", "0">>, lightness |-> 80],
       [label |-> <<"3", "0", "0">>, lightness |-> 70],
       [label |-> <<"4", "0", "0">>, lightness |-> 60],
       [label |-> <<"5", "0", "0">>, lightness |-> 50],
       [label |-> <<"6", "0", "0">>, lightness |-> 40],
       [label |-> <<"7", "0", "0">>, lightness |-> 30],
       [label |-> <<"8", "0", "0">>, lightness |-> 20],
       [label |-> <<"9", "0", "0">>, lightness |-> 10] >>

\* tones are the table entries from offset + 1 on, count of them, each with the
\* hex of the base's hue and saturation at its lightness
IsLadder(tones, base, offset, count) ==
    /\ Len(tones) = count
    /\ \A i \in 1..count :
          /\ tones[i].label = ClaimedTable[offset + i].label
          /\ tones[i].lightness = ClaimedTable[offset + i].lightness
          /\ tones[i].hex \in hslToHex(base.hsl.h, base.hsl.s, tones[i].lightness)

\* C16: generateAllTones returns the 10 tones (50,95), (100,90), ..., (900,10)
\* in this order, generateTones the 7 tones labelled 100..700 in the same order,
\* each with hex hslToHex(base.hsl.h, base.hsl.s, lightness); getStandardLabels
\* and getStandardLightness return the two columns of the table.
C16_StandardLadder ==
    /\ conv.fn = "generateAllTones" => IsLadder(conv.tones, conv.arg.base, 0, 10)
    /\ conv.fn = "generateTones" => IsLadder(conv.tones, conv.arg.base, 1, 7)
    /\ conv.fn = "getStandardLabels" =>
          conv.res = [i \in 1..10 |-> ClaimedTable[i].label]
    /\ conv.fn = "getStandardLightness" =>
          conv.res = <<95, 90, 80, 70, 60, 50, 40, 30, 20, 10>>

\* the seven tones of a base of hue 360
C16_Witness ==
    /\ conv.fn = "generateTones"
    /\ conv.arg.base.hsl.h = 360
    /\ Len(conv.tones) = 7
    /\ conv.tones[1].lightness = 90
    /\ conv.tones[7].lightness = 30

\* the worst difference, over the results hexToHsl(tone.hex) can give, between
\* the hue re-derived from the tone and h (on the circle), the saturation and
\* s, the lightness and the tone's; 999 when hexToHsl throws
ToneHueError(tone, h) ==
    IF hexToRgb(tone.hex).err THEN 999
    ELSE LET ds == { CircularDistance(o.h, h) : o \in hexToHsl(tone.hex) }
         IN  CHOOSE d \in ds : \A e \in ds : e <= d

ToneSaturationError(tone, s) ==
    IF hexToRgb(tone.hex).err THEN 999
    ELSE LET ds == { Abs(o.s - s) : o \in hexToHsl(tone.hex) }
         IN  CHOOSE d \in ds : \A e \in ds : e <= d

ToneLightnessError(tone) ==
    IF hexToRgb(tone.hex).err THEN 999
    ELSE LET ds == { Abs(o.l - tone.lightness) : o \in hexToHsl(tone.hex) }
         IN  CHOOSE d \in ds : \A e \in ds : e <= d

InGeneratedRange(base) ==
    /\ base.hsl.h \in 0..359
    /\ base.hsl.s \in 60..100
    /\ base.hsl.l \in 40..70

\* C17: for a base createColorFromHsl(h,s,l) with h in [0,359], s in [60,100],
\* l in [40,70], every tone of generateAllTones(base) re-derives from its hex
\* to a hue within 4 of h (circularly), a saturation within 4 of s and a
\* lightness within 4 of its own, and validateToneConsistency returns true.
C17_GeneratedBasesConsistent ==
    (conv.fn \in {"generateAllTones", "validateToneConsistency"}
        /\ InGeneratedRange(conv.arg.base)) =>
        /\ Len(conv.tones) = 10
        /\ \A i \in 1..Len(conv.tones) :
              /\ ToneHueError(conv.tones[i], conv.arg.base.hsl.h) <= 4
              /\ ToneSaturationError(conv.tones[i], conv.arg.base.hsl.s) <= 4
              /\ ToneLightnessError(conv.tones[i]) <= 4
        /\ conv.fn = "validateToneConsistency" => conv.res

\* a validated ladder one of whose tones is a full 4 degrees off in hue
C17_Witness ==
    /\ conv.fn = "validateToneConsistency"
    /\ InGeneratedRange(conv.arg.base)
    /\ conv.res
    /\ \E i \in 1..Len(conv.tones) :
          ToneHueError(conv.tones[i], conv.arg.base.hsl.h) = 4

\* C18 as claimed: for every valid base, every tone of generateAllTones(base)
\* re-derives from its hex to a hue within 4 of the base's (circularly) and a
\* saturation within 4 of the base's.
C18_AsClaimed ==
    conv.fn = "generateAllTones" =>
        \A i \in 1..Len(conv.tones) :
            /\ ToneHueError(conv.tones[i], conv.arg.base.hsl.h) <= 4
            /\ ToneSaturationError(conv.tones[i], conv.arg.base.hsl.s) <= 4

\* C18, amended: ... for every valid base of saturation at least 46 ...
C18_SaturatedBasesKeepHue ==
    (conv.fn = "generateAllTones" /\ conv.arg.base.hsl.s >= 46) =>
        \A i \in 1..Len(conv.tones) :
            /\ ToneHueError(conv.tones[i], conv.arg.base.hsl.h) <= 4
            /\ ToneSaturationError(conv.tones[i], conv.arg.base.hsl.s) <= 4

\* the ladder of a base of saturation 46 and hue 360
C18_Witness ==
    /\ conv.fn = "generateAllTones"
    /\ conv.arg.base.hsl.s = 46
    /\ conv.arg.base.hsl.h = 360
    /\ Len(conv.tones) = 10

\* C19: for L in [0,100], findClosestTone(L) is the table entry whose lightness
\* is closest to L, the lighter one when two are equally close; findClosestTone(52)
\* is the entry labelled 500 with lightness 50.
C19_ClosestToneLighterOnTie ==
    (conv.fn = "findClosestTone" /\ conv.arg.lightness \in 0..100) =>
        /\ ~conv.threw
        /\ \E i \in 1..10 :
              /\ conv.tone.label = ClaimedTable[i].label
              /\ conv.tone.lightness = ClaimedTable[i].lightness
              /\ \A j \in 1..10 :
                    LET mine == Abs(conv.arg.lightness - ClaimedTable[i].lightness)
                        other == Abs(conv.arg.lightness - ClaimedTable[j].lightness)
                    IN  /\ mine <= other
                        /\ (mine = other) =>
                              ClaimedTable[j].lightness <= ClaimedTable[i].lightness
        /\ conv.arg.lightness = 52 =>
              (conv.tone.label = <<"5", "0", "0">> /\ conv.tone.lightness = 50)

\* 15 is as far from 20 as from 10: the entry of lightness 20 is returned
C19_Witness ==
    /\ conv.fn = "findClosestTone"
    /\ conv.arg.lightness = 15
    /\ ~conv.threw
    /\ conv.tone.lightness = 20

\* C20: generateSpecificTone(base, L, label) and findClosestTone(L) throw
\* exactly when L < 0 or L > 100; otherwise generateSpecificTone's tone has
\* lightness L and hex hslToHex(base.hsl.h, base.hsl.s, L).
C20_LightnessChecked ==
    conv.fn \in {"generateSpecificTone", "findClosestTone"} =>
        /\ conv.threw <=> (conv.arg.lightness < 0 \/ conv.arg.lightness > 100)
        /\ (conv.fn = "generateSpecificTone" /\ ~conv.threw) =>
              /\ conv.tone.lightness = conv.arg.lightness
              /\ conv.tone.hex \in hslToHex(conv.arg.base.hsl.h, conv.arg.base.hsl.s,
                                            conv.arg.lightness)

\* a tone of lightness 100 made from an achromatic base
C20_Witness ==
    /\ conv.fn = "generateSpecificTone"
    /\ conv.arg.lightness = 100
    /\ conv.arg.base.hsl.s = 0
    /\ ~conv.threw
    /\ conv.tone.lightness = 100

\* hexToRgb(c.hex) succeeds and equals c.rgb
HexMatchesRgb(c) ==
    LET rgb == hexToRgb(c.hex)
    IN  /\ ~rgb.err
        /\ rgb.r = c.rgb.r /\ rgb.g = c.rgb.g /\ rgb.b = c.rgb.b

\* c.rgb is a result of hslToRgb(c.hsl)
RgbFromHsl(c) == c.rgb \in hslToRgb(c.hsl.h, c.hsl.s, c.hsl.l)

\* c.hsl is a result of rgbToHsl(c.rgb)
HslFromRgb(c) == c.hsl \in rgbToHsl(c.rgb.r, c.rgb.g, c.rgb.b)

\* C14: a colour returned by a factory has hexToRgb(hex) = rgb, and
\* rgb = hslToRgb(hsl) when made from HSL, hsl = rgbToHsl(rgb) when made from
\* RGB or HEX; every colour of the palette, placed there by generation or by
\* applying a tone, has rgb = hslToRgb(hsl) and hexToRgb(hex) = rgb.
C14_RepresentationsAgree ==
    /\ (conv.fn = "createColorFromHsl" /\ ~conv.threw) =>
          (HexMatchesRgb(conv.color) /\ RgbFromHsl(conv.color))
    /\ (conv.fn \in {"createColorFromRgb", "createColorFromHex"} /\ ~conv.threw) =>
          (HexMatchesRgb(conv.color) /\ HslFromRgb(conv.color))
    /\ \A i \in 1..Len(palette.colors) :
          HexMatchesRgb(palette.colors[i]) /\ RgbFromHsl(palette.colors[i])

\* a palette one of whose colours has taken the lightest tone
C14_Witness ==
    /\ last.op = "applyTone"
    /\ ~last.threw
    /\ \E i \in 1..Len(palette.colors) :
          /\ palette.colors[i].id = last.colorId
          /\ palette.colors[i].hsl.l = 90
          /\ palette.colors[i].hsl.s >= 60

\* C21: for every colour made by createColorFromHsl, getContrastColor of its
\* hex returns '#000000' or '#FFFFFF' without error (white for '#000000',
\* black for '#FFFFFF'), and the WCAG contrast ratio (Lmax + 0.05) /
\* (Lmin + 0.05) between the returned colour and the input is at least 4.5:
\* with black text Lmin = 0 and Lmax is at least the input's lower luminance
\* bound, with white text Lmax = 1 and Lmin is at most the upper bound
\* (2 (Lmax + 0.05) >= 9 (Lmin + 0.05), luminances in units of 10^-8)
C21_ContrastAtLeast45 ==
    conv.fn = "getContrastColor" =>
        /\ ~conv.threw
        /\ conv.color \in {Black, White}
        /\ conv.arg.hex = Black => conv.color = White
        /\ conv.arg.hex = White => conv.color = Black
        /\ LET rgb == hexToRgb(conv.arg.hex)
               textLuminance == IF conv.color = White THEN 100000000 ELSE 0
               lighterLow == IF conv.color = White THEN textLuminance
                             ELSE luminanceLow(rgb)
               darkerHigh == IF conv.color = White THEN luminanceHigh(rgb)
                             ELSE textLuminance
           IN  2 * (lighterLow + 5000000) >= 9 * (darkerHigh + 5000000)

C21_Witness ==
    /\ conv.fn = "getContrastColor"
    /\ conv.color = White
    /\ conv.arg.hsl.s >= 60
    /\ luminanceLow(hexToRgb(conv.arg.hex)) > 17000000

\* C22 as claimed: hslToRgb(9,100,60) is within 1 of r = 255, g = 87, b = 51
\* in each channel and its hex is '#FF5733'
C22_AsClaimed ==
    (conv.fn = "hslRoundTrip" /\ conv.arg = [h |-> 9, s |-> 100, l |-> 60]) =>
        /\ Abs(conv.rgb.r - 255) <= 1
        /\ Abs(conv.rgb.g - 87) <= 1
        /\ Abs(conv.rgb.b - 51) <= 1
        /\ conv.hex = <<"#", "F", "F", "5", "7", "3", "3">>

\* C22: hslToRgb(9,100,60) is r = 255, g = 82, b = 51 and rgbToHex of it,
\* which is hslToHex(9,100,60), is '#FF5233'
C22_Hsl9Is255_82_51 ==
    (conv.fn = "hslRoundTrip" /\ conv.arg = [h |-> 9, s |-> 100, l |-> 60]) =>
        /\ conv.rgb = [r |-> 255, g |-> 82, b |-> 51]
        /\ conv.hex = <<"#", "F", "F", "5", "2", "3", "3">>
        /\ hslToHex(9, 100, 60) = {conv.hex}

C22_Witness ==
    /\ conv.fn = "hslRoundTrip"
    /\ conv.arg = [h |-> 9, s |-> 100, l |-> 60]
    /\ conv.rgb.g = 82

ColorIds(colors) == { colors[i].id : i \in 1..Len(colors) }

\* C23: with preserveLocked true the colours returned by
\* generateHarmoniousPalette / regeneratePalette are the locked colours of the
\* input, in their order and unchanged, followed by 5 minus that many new
\* colours whose ids do not occur in the input, so no unlocked input colour is
\* in the result; with preserveLocked false (generateFreshPalette too) no
\* input colour is in the result.
C23_LockedFirstThenNew ==
    [][last'.op \in Generating =>
          LET locked == IF last'.preserveLocked
                        THEN SelectSeq(palette.colors, IsLocked) ELSE <<>>
          IN  /\ ~last'.threw
              /\ Len(palette'.colors) = Len(locked) + (5 - Len(locked))
              /\ SubSeq(palette'.colors, 1, Len(locked)) = locked
              /\ \A j \in (Len(locked) + 1)..Len(palette'.colors) :
                    palette'.colors[j].id \notin ColorIds(palette.colors)
              /\ \A i \in 1..Len(palette.colors) :
                    (~palette.colors[i].isLocked \/ ~last'.preserveLocked) =>
                        palette.colors[i].id \notin ColorIds(palette'.colors)]_vars

\* the regeneration of a five-colour palette whose second and fourth colours
\* were the locked ones: they come first, three new colours follow
C23_Witness ==
    /\ last.op = "regeneratePalette"
    /\ now = 2
    /\ last.kept = 2
    /\ palette.colors[1].id = 2
    /\ palette.colors[2].id = 4
    /\ palette.colors[3].id > 5

\* the hue of the candidate numbered k (from 0) of a search that started at
\* draw 0, and whether it is at least 30 degrees from every existing hue
CandidateHue(seed, k) == randomInRange(0, 359, Draw(seed, k))

FarFromAll(hue, existingColors) ==
    \A i \in 1..Len(existingColors) :
        CircularDistance(hue, existingColors[i].hsl.h) >= 30

\* C24: a call of generateDistinctColor never throws; it draws at most 50
\* candidate hues, the colour it returns has the first candidate that is at
\* least 30 degrees (circularly) from every existing hue, and when all 50 are
\* rejected it returns a colour of the generated ranges all the same; a
\* generating operation makes 5 - (locked colours kept) such searches, at most
\* 5, and never throws.
C24_SearchBoundedNeverFails ==
    [][/\ conv'.fn = "generateDistinctColor" =>
            LET seed == conv'.arg.seed
                existingColors == conv'.arg.existingColors
                candidates == IF conv'.fellBack THEN MaxAttempts ELSE conv'.pos - 2
            IN  /\ ~conv'.threw
                /\ candidates \in 1..50
                /\ \A k \in 0..(candidates - 2) :
                      ~FarFromAll(CandidateHue(seed, k), existingColors)
                /\ ~conv'.fellBack =>
                      /\ conv'.color.hsl.h = CandidateHue(seed, candidates - 1)
                      /\ FarFromAll(conv'.color.hsl.h, existingColors)
                /\ conv'.fellBack =>
                      /\ ~FarFromAll(CandidateHue(seed, candidates - 1), existingColors)
                      /\ conv'.pos = MaxAttempts + 3
                      /\ conv'.color.hsl.h \in 0..359
                      /\ conv'.color.hsl.s \in 60..100
                      /\ conv'.color.hsl.l \in 40..70
       /\ last'.op \in Generating =>
            /\ ~last'.threw
            /\ nextId' - nextId = 5 - last'.kept
            /\ nextId' - nextId <= 5
            /\ Len(palette'.colors) = 5]_vars

\* a search that rejected 50 candidates and fell back, with colours to avoid
C24_Witness ==
    /\ conv # NoCall
    /\ conv.fn = "generateDistinctColor"
    /\ conv.fellBack
    /\ ~conv.threw
    /\ Len(conv.arg.existingColors) >= 1

\* the representative of h in 0..359 (TLA+'s % is never negative), and the
\* value of a percentage cut to [0,100]
HueIn0To359(h) == h % 360

PercentIn0To100(p) == IF p < 0 THEN 0 ELSE IF p > 100 THEN 100 ELSE p

\* C25: hslToRgb accepts any integer hue and is periodic in it, hslToRgb(h,s,l)
\* = hslToRgb(h mod 360, s, l), so hue 360 gives what hue 0 gives and -h what
\* 360 - h gives; a saturation or lightness outside [0,100] gives what the
\* nearest bound gives; every channel returned is an integer in [0,255].  Two
\* calls are equal when they have the same results to choose from: the side a
\* tie of Math.round falls on is fixed by the normalised arguments.
C25_HuePeriodicPercentClamped ==
    conv.fn = "hslToRgb" =>
        LET h == conv.arg.h
            s == conv.arg.s
            l == conv.arg.l
        IN  /\ hslToRgb(h, s, l)
                  = hslToRgb(HueIn0To359(h), PercentIn0To100(s), PercentIn0To100(l))
            /\ hslToRgb(h, s, l) = hslToRgb(HueIn0To359(h), s, l)
            /\ hslToRgb(0 - h, s, l) = hslToRgb(360 - h, s, l)
            /\ hslToRgb(360, s, l) = hslToRgb(0, s, l)
            /\ conv.res \in hslToRgb(HueIn0To359(h), PercentIn0To100(s),
                                     PercentIn0To100(l))
            /\ conv.res.r \in 0..255
            /\ conv.res.g \in 0..255
            /\ conv.res.b \in 0..255

\* a negative hue with a saturated colour: hue -9 gives what hue 351 gives
C25_Witness ==
    /\ conv.fn = "hslToRgb"
    /\ conv.arg = [h |-> 0 - 9, s |-> 100, l |-> 50]
    /\ conv.res = [r |-> 255, g |-> 0, b |-> 38]

\* C27 as claimed: when a copyToClipboard call has just completed, overlapping
\* calls included, the status is isSuccess, not isError, errorMessage null if it
\* returned true, and not isSuccess, isError, errorMessage a non-empty string
\* if it returned false; and isSuccess and isError are never both true.
C27_AsClaimed ==
    /\ ~(clipboard.isSuccess /\ clipboard.isError)
    /\ last.op = "copyToClipboard" =>
          IF last.success
          THEN /\ clipboard.isSuccess
               /\ ~clipboard.isError
               /\ clipboard.errorMessage = <<>>
          ELSE /\ ~clipboard.isSuccess
               /\ clipboard.isError
               /\ clipboard.errorMessage # <<>>
               /\ clipboard.errorMessage[1] # ""

(***************************************************************************)
(* C26.  Applying a tone (handleToneSelect, then updateColor) leaves the   *)
(* palette's length alone and replaces exactly the entry with the selected *)
(* colour's id: that entry keeps its id, its isLocked flag, its hue and    *)
(* saturation and its position, and takes the tone's lightness, the tone's *)
(* hex and the rgb parsed from that hex; every other entry is unchanged.   *)
(* The statement as claimed; the entry compared is the palette's, as it    *)
(* stands when the tone is applied.                                        *)
(***************************************************************************)
ToneApplied ==
    /\ selected # NoColor
    /\ now' = now + 1
    /\ last'.op = "applyTone"
    /\ ~last'.threw

ToneReplacesEntry(old, new, tone) ==
    /\ new.id = old.id
    /\ new.isLocked = old.isLocked
    /\ new.hsl.h = old.hsl.h
    /\ new.hsl.s = old.hsl.s
    /\ new.hsl.l = tone.lightness
    /\ new.hex = tone.hex
    /\ LET rgb == hexToRgb(tone.hex)
       IN  new.rgb = [r |-> rgb.r, g |-> rgb.g, b |-> rgb.b]

C26_AsClaimed ==
    [][ToneApplied =>
         /\ Len(palette'.colors) = Len(palette.colors)
         /\ \A i \in 1..Len(palette.colors) :
               IF palette.colors[i].id = selected.id
               THEN ToneReplacesEntry(palette.colors[i], palette'.colors[i],
                                      last'.tone)
               ELSE palette'.colors[i] = palette.colors[i]]_vars

(***************************************************************************)
(* C28.  A colour locked with toggleColorLock while a generateNewPalette   *)
(* call is waiting is still in the palette that call installs, locked and  *)
(* with every field unchanged.  The statement as claimed: the colour is    *)
(* locked in the palette on display and unlocked in the palette the call   *)
(* closed over.                                                            *)
(***************************************************************************)
LockedDuringDelay(color, closedOver) ==
    /\ color.isLocked
    /\ \E j \in 1..Len(closedOver.colors) :
          closedOver.colors[j] = [color EXCEPT !.isLocked = FALSE]

C28_AsClaimed ==
    [][(inFlight # <<>> /\ inFlight' = Tail(inFlight) /\ now' = now + 1) =>
         \A i \in 1..Len(palette.colors) :
            LockedDuringDelay(palette.colors[i], Head(inFlight)) =>
               \E k \in 1..Len(palette'.colors) :
                  palette'.colors[k] = palette.colors[i]]_vars

(***************************************************************************)
(* C29.  The palette of usePalette always holds exactly 5 colours, with    *)
(* pairwise distinct ids, whatever the user does: generations that         *)
(* overlap, locks toggled and tones applied while a generation waits.      *)
(***************************************************************************)
C29_FiveColorsDistinctIds ==
    /\ Len(palette.colors) = 5
    /\ \A i, j \in 1..Len(palette.colors) :
          palette.colors[i].id = palette.colors[j].id => i = j

\* a colour is locked, two generations are started one after the other, and
\* the second has now completed too: the lock was kept by both
C29_Witness ==
    /\ last.op = "generateNewPalette"
    /\ ~last.threw
    /\ last.kept = 1
    /\ inFlight = <<>>
    /\ nextId = 14
    /\ palette.colors[1].isLocked

(***************************************************************************)
(* C30.  isGenerating is true from the start of a generateNewPalette call  *)
(* until that call has installed its palette, also when calls overlap.     *)
(* The statement as claimed: while a call has not completed, isGenerating  *)
(* is true.                                                                *)
(***************************************************************************)
C30_AsClaimed == inFlight # <<>> => isGenerating

====
